---------------------------- MODULE Spec2Model ----------------------------
(***************************************************************************)
(* YourNews (news-app-django): the relational state of the news app and    *)
(* the request handlers that change or read it.                            *)
(*                                                                         *)
(* Every action is one completed request.  The database runs in Django's   *)
(* default autocommit mode: every save() of a view persists at once, so a  *)
(* view that raises part-way leaves its earlier writes in place.  The      *)
(* admin change form runs inside the transaction of                        *)
(* ModelAdmin.changeform_view and is rolled back as a whole when it raises.*)
(*                                                                         *)
(* Encoding.  A user is its primary key, a positive number.  A Publisher,  *)
(* Journalist or Editor row is a record carrying its user; the one-to-one  *)
(* constraint on user is checked on insert, so a profile row is referred   *)
(* to by the key of its user.  Every other table is the sequence of its    *)
(* rows in the order of their primary keys (AutoField: keys grow and are   *)
(* never given twice).  For articles, newsletters and role applications    *)
(* the index is the primary key and a deleted row leaves a marker at its   *)
(* key.  The key of a subscription row is never shown or looked up by a    *)
(* view, so a subscription table is the sequence of the rows it holds and  *)
(* a deleted row is taken out.  A subscription row is                      *)
(* [reader, target, is_active], target being its journalist or publisher.  *)
(***************************************************************************)
EXTENDS Naturals, Integers, Sequences, FiniteSets, TLC

VARIABLES
    users,                     \* registered CustomUser keys
    role,                      \* CustomUser.role of each registered user
    email,                     \* CustomUser.email of each registered user
    publishers,                \* Publisher rows  [user, name]
    editors,                   \* Editor rows     [user, publisher]
    journalists,               \* Journalist rows [user, publisher]
    articles,                  \* Article rows    [text, journalist, publisher, status]
    newsletters,               \* Newsletter rows [text, journalist, publisher]
    journalist_subscriptions,  \* JournalistSubscription rows per (reader, journalist)
    publisher_subscriptions,   \* PublisherSubscription rows per (reader, publisher)
    applications,              \* RoleApplication rows [user, applied_role, status]
    outbox,                    \* the emails sent by the last request, in order
    twitter,                   \* the articles the last request tried to post
    last,                      \* the last request: handler, caller, arguments, outcome
    groups,                    \* CustomUser.groups: the group names of each user
    password,                  \* CustomUser.password of each user
    reset_tokens,              \* ResetToken rows [user, expiry_date, used]
    now,                       \* timezone.now(), in microseconds
    running                    \* requests that have read and not yet written

vars == <<users, role, email, publishers, editors, journalists, articles,
          newsletters, journalist_subscriptions, publisher_subscriptions,
          applications, outbox, twitter, last, groups, password,
          reset_tokens, now, running>>

people   == <<users, role, email, groups, password>>
resets   == <<reset_tokens, now>>
profiles == <<publishers, editors, journalists>>
content  == <<articles, newsletters>>
subs     == <<journalist_subscriptions, publisher_subscriptions>>

\* ------------------------------------------------------------------ bounds

MaxUsers == 4
MaxApplications == 2
MaxApplicationsWithSubscriptions == 1
MaxApplicationsWithForms == 1
MaxArticles == 2
MaxArticlesUnderReview == 1
MaxNewsletters == 1
MaxSubscriptionRows == 3
MaxSubscriptionRowsWithApplications == 2
MaxRunning == 2
MaxTokens == 2
MaxClock == 7

\* ------------------------------------------------------------------ values

NoPublisher == 0
\* timezone.now() and expiry_date are datetimes with a resolution of one
\* microsecond: the clock counts microseconds.
Microsecond == 1
Minute == 60 * 1000000
\* timedelta(minutes=5)
ResetWindow == 5 * Minute
\* A primary key no row has.
NoSuchKey == MaxUsers + 1

ROLE_CHOICES == {"reader", "journalist", "editor", "publisher"}
APPLIED_ROLE_CHOICES == {"journalist", "editor", "publisher"}
STATUS_CHOICES == {"pending", "approved", "rejected"}
Addresses == {"a@news"}

\* f"{user.username} Publishing": usernames are unique, the user's key stands
\* for the username.
PublishingName(u) == <<u, "Publishing">>

\* The staff accounts (is_staff is set outside the modelled handlers).
StaffIds == {1}
is_staff(u) == u \in StaffIds

Request(op, u, arg, arg2, outcome) ==
    [op |-> op, user |-> u, arg |-> arg, arg2 |-> arg2, outcome |-> outcome]

\* An approval that went through: with the request, the status the application
\* was loaded with ("" when the admin form adds the row) and whether
\* get_or_create inserted the profile row.
ApprovedRequest(op, u, arg, arg2, status, created) ==
    [op |-> op, user |-> u, arg |-> arg, arg2 |-> arg2, outcome |-> "approved",
     status |-> status, created |-> created]

\* ------------------------------------------------------------------ tables

PublisherIds  == {p.user : p \in publishers}
JournalistIds == {j.user : j \in journalists}

Readers == {u \in users : role[u] = "reader"}

has_journalist_profile(u) == \E j \in journalists : j.user = u
has_editor_profile(u)     == \E e \in editors : e.user = u
journalist_profile(u) == CHOOSE j \in journalists : j.user = u
editor_profile(u)     == CHOOSE e \in editors : e.user = u

\* One row of a subscription table; `target' is its journalist or publisher.
\* The place of a row in its table is its primary key.
Row(u, t, flag) == [reader |-> u, target |-> t, is_active |-> flag]

\* What is left at the key of a deleted row: keys are never given again.
DeletedRow == Row(0, 0, FALSE)

\* The primary keys of the rows a subscription table holds.
RowIds(table) == {i \in DOMAIN table : table[i] # DeletedRow}

ActiveRows(rows) == {i \in DOMAIN rows : rows[i]}

\* The keys of the rows of one (reader, target) pair.
KeysOf(table, k) ==
    {i \in DOMAIN table : table[i].reader = k[1] /\ table[i].target = k[2]}

\* The (reader, target) pairs that have a row.
Pairs(table) == {<<table[i].reader, table[i].target>> : i \in RowIds(table)}

\* The is_active flags of the rows of one (reader, target) pair, oldest first.
Rows(table, k) ==
    LET OfPair(row) == row.reader = k[1] /\ row.target = k[2]
        found == SelectSeq(table, OfPair)
    IN [i \in DOMAIN found |-> found[i].is_active]

\* filter(reader=u, <target>=t, is_active=True).exists()
IsActive(table, u, t) == \E i \in KeysOf(table, <<u, t>>) : table[i].is_active

\* filter(reader=u, is_active=True).values_list("<target>_id", flat=True)
ActiveTargets(table, u) ==
    {table[i].target : i \in {j \in DOMAIN table : table[j].reader = u /\ table[j].is_active}}

\* filter(<target>=t, is_active=True): the readers of the active rows, in the
\* order of the table (no order_by: the order of the keys).
ActiveReaders(table, t) ==
    LET Active(row) == row.target = t /\ row.is_active
        found == SelectSeq(table, Active)
    IN [i \in DOMAIN found |-> found[i].reader]

\* Variant: the rows are deleted instead of being set inactive.
DeactivateAll_deleting(table, u) ==
    LET Kept(row) == row.reader # u IN SelectSeq(table, Kept)

\* QuerySet.filter(reader=u, is_active=True).update(is_active=False)
DeactivateAll(table, u) ==
    [i \in DOMAIN table |->
        IF table[i].reader = u THEN [table[i] EXCEPT !.is_active = FALSE] ELSE table[i]]

\* Model.objects.create of one row of a pair: the next key.
InsertRow(table, k, flag) == Append(table, Row(k[1], k[2], flag))

\* save() of the rows of a pair with is_active = flag.
SetRow(table, k, flag) ==
    [i \in DOMAIN table |->
        IF i \in KeysOf(table, k) THEN [table[i] EXCEPT !.is_active = flag] ELSE table[i]]

\* delete() of the rows of a pair.
DeleteRows(table, k) ==
    [i \in DOMAIN table |-> IF i \in KeysOf(table, k) THEN DeletedRow ELSE table[i]]

\* delete() of the row with key i.
DeleteRowAt(table, i) == [table EXCEPT ![i] = DeletedRow]

\* The number of keys a table has given out.
RowCount(table) == Len(table)

SubscriptionRows == RowCount(journalist_subscriptions) + RowCount(publisher_subscriptions)

\* What is left at the key of a deleted article, newsletter or application.
DeletedArticle == [text |-> "", journalist |-> 0, publisher |-> 0, status |-> "deleted"]
DeletedNewsletter == [text |-> "", journalist |-> 0, publisher |-> 0]
DeletedApplication == [user |-> 0, applied_role |-> "", status |-> "deleted"]

\* The primary keys of the rows a table holds.
ArticleIds == {pk \in DOMAIN articles : articles[pk] # DeletedArticle}
NewsletterIds == {pk \in DOMAIN newsletters : newsletters[pk] # DeletedNewsletter}
ApplicationIds == {pk \in DOMAIN applications : applications[pk] # DeletedApplication}

\* What a request leaves behind besides the tables it wrote.
Respond(req, mail, tweets) ==
    /\ last' = req
    /\ outbox' = mail
    /\ twitter' = tweets

Mail(kind, to, about) == [kind |-> kind, to |-> to, about |-> about]

\* ------------------------------------------------------------------ CustomUser

\* str.capitalize() of a role: the name of its group.
capitalize(r) ==
    CASE r = "reader" -> "Reader"
      [] r = "journalist" -> "Journalist"
      [] r = "editor" -> "Editor"
      [] r = "publisher" -> "Publisher"

\* The password a user chose at registration.
OwnPassword == "own"

\* make_password(raw): what is stored is the hash, never the raw value.
make_password(raw) == <<"pbkdf2_sha256", raw>>

\* sha1(token.encode()).hexdigest()
sha1(token) == <<"sha1", token>>

\* Variant: the role's group is added without clearing the others.
CustomUser_save_groups_adding(g, u, new_role) ==
    [g EXCEPT ![u] = @ \cup {capitalize(new_role)}]

\* CustomUser.save, the group membership: Group.objects.get_or_create(
\* name=self.role.capitalize()); self.groups.clear(); self.groups.add(group)
CustomUser_save_groups(g, u, new_role) ==
    [g EXCEPT ![u] = (@ \ @) \cup {capitalize(new_role)}]

\* Accounts made with create_user, no reset requested, nothing in flight.
InitAccounts ==
    /\ groups = [u \in users |-> {capitalize(role[u])}]
    /\ password = [u \in users |-> make_password(OwnPassword)]
    /\ reset_tokens = <<>>
    /\ now = 0
    /\ running = {}

\* Variant: save() without the subscription clean-up.
CustomUser_save_without_cleanup(table, u, old_role, new_role) == table

\* CustomUser.save, the subscription clean-up: when the stored role was reader
\* and the saved role is not, every active subscription row of the user is
\* set inactive.
CustomUser_save(table, u, old_role, new_role) ==
    IF old_role # new_role /\ old_role = "reader" /\ new_role # "reader"
    THEN DeactivateAll(table, u)
    ELSE table

\* register: a valid POST creates the user as a reader; its key is the next one.
register(addr, valid) ==
    LET u == Cardinality(users) + 1 IN
    /\ Cardinality(users) < MaxUsers
    /\ IF valid
       THEN /\ users' = users \cup {u}
            /\ role' = [x \in users \cup {u} |-> IF x = u THEN "reader" ELSE role[x]]
            /\ email' = [x \in users \cup {u} |-> IF x = u THEN addr ELSE email[x]]
            /\ groups' = CustomUser_save_groups(
                              [x \in users \cup {u} |-> IF x = u THEN {} ELSE groups[x]],
                              u, "reader")
            /\ password' = [x \in users \cup {u} |-> IF x = u THEN make_password(OwnPassword) ELSE password[x]]
            /\ Respond(Request("register", u, 0, 0, "registered"), <<>>, <<>>)
       ELSE /\ UNCHANGED people
            /\ Respond(Request("register", 0, 0, 0, "form"), <<>>, <<>>)
    /\ UNCHANGED <<profiles, content, subs, applications, resets, running>>

\* A direct role assignment: user.role = r; user.save() (shell, admin edit).
set_role(u, r) ==
    /\ u \in users
    /\ role' = [role EXCEPT ![u] = r]
    /\ groups' = CustomUser_save_groups(groups, u, r)
    /\ journalist_subscriptions' = CustomUser_save(journalist_subscriptions, u, role[u], r)
    /\ publisher_subscriptions' = CustomUser_save(publisher_subscriptions, u, role[u], r)
    /\ Respond(Request("set_role", u, 0, 0, r), <<>>, <<>>)
    /\ UNCHANGED <<users, email, password, profiles, content, applications, resets, running>>

\* ------------------------------------------------------------------ subscriptions

\* Variant: create() in place of get_or_create(): a row is added on every call.
Subscribe_always_creating(table, u, t) ==
    [table |-> InsertRow(table, <<u, t>>, TRUE), outcome |-> "subscribed"]

\* get_or_create(reader=u, <target>=t, defaults={"is_active": True}) followed by
\* the reactivation branch: the table afterwards and the message shown.
Subscribe(table, u, t) ==
    LET rows == Rows(table, <<u, t>>) IN
    IF rows = <<>> THEN [table |-> InsertRow(table, <<u, t>>, TRUE), outcome |-> "subscribed"]
    ELSE IF Len(rows) > 1 THEN [table |-> table, outcome |-> "MultipleObjectsReturned"]
    ELSE IF ~rows[1] THEN [table |-> SetRow(table, <<u, t>>, TRUE), outcome |-> "resubscribed"]
    ELSE [table |-> table, outcome |-> "already_subscribed"]

\* Variant: the DoesNotExist of get() is not caught.
Unsubscribe_raising(table, u, t) ==
    LET rows == Rows(table, <<u, t>>) IN
    IF ActiveRows(rows) = {} THEN [table |-> table, outcome |-> "DoesNotExist"]
    ELSE [table |-> SetRow(table, <<u, t>>, FALSE), outcome |-> "unsubscribed"]

\* Variant: unsubscribing deletes the row.
Unsubscribe_deleting(table, u, t) ==
    LET rows == Rows(table, <<u, t>>) IN
    IF ActiveRows(rows) = {} THEN [table |-> table, outcome |-> "not_subscribed"]
    ELSE [table |-> DeleteRows(table, <<u, t>>), outcome |-> "unsubscribed"]

\* get(reader=u, <target>=t, is_active=True); is_active = False; save()
Unsubscribe(table, u, t) ==
    LET rows == Rows(table, <<u, t>>)
        active == ActiveRows(rows) IN
    IF active = {} THEN [table |-> table, outcome |-> "not_subscribed"]
    ELSE IF Cardinality(active) > 1 THEN [table |-> table, outcome |-> "MultipleObjectsReturned"]
    ELSE [table |-> SetRow(table, <<u, t>>, FALSE), outcome |-> "unsubscribed"]

subscribe_to_journalist(u, journalist_id) ==
    /\ u \in users
    /\ IF role[u] # "reader"
       THEN /\ UNCHANGED journalist_subscriptions
            /\ Respond(Request("subscribe_to_journalist", u, 0, 0, "forbidden"), <<>>, <<>>)
       ELSE IF journalist_id \notin JournalistIds
       THEN /\ UNCHANGED journalist_subscriptions
            /\ Respond(Request("subscribe_to_journalist", u, journalist_id, 0, "404"), <<>>, <<>>)
       ELSE LET r == Subscribe(journalist_subscriptions, u, journalist_id) IN
            /\ r.outcome = "subscribed" => SubscriptionRows < MaxSubscriptionRows
            /\ journalist_subscriptions' = r.table
            /\ Respond(Request("subscribe_to_journalist", u, journalist_id, 0, r.outcome), <<>>, <<>>)
    /\ UNCHANGED <<people, profiles, content, publisher_subscriptions, applications, resets, running>>

unsubscribe_from_journalist(u, journalist_id) ==
    /\ u \in users
    /\ IF role[u] # "reader"
       THEN /\ UNCHANGED journalist_subscriptions
            /\ Respond(Request("unsubscribe_from_journalist", u, 0, 0, "forbidden"), <<>>, <<>>)
       ELSE IF journalist_id \notin JournalistIds
       THEN /\ UNCHANGED journalist_subscriptions
            /\ Respond(Request("unsubscribe_from_journalist", u, journalist_id, 0, "404"), <<>>, <<>>)
       ELSE LET r == Unsubscribe(journalist_subscriptions, u, journalist_id) IN
            /\ journalist_subscriptions' = r.table
            /\ Respond(Request("unsubscribe_from_journalist", u, journalist_id, 0, r.outcome), <<>>, <<>>)
    /\ UNCHANGED <<people, profiles, content, publisher_subscriptions, applications, resets, running>>

subscribe_to_publisher(u, publisher_id) ==
    /\ u \in users
    /\ IF role[u] # "reader"
       THEN /\ UNCHANGED publisher_subscriptions
            /\ Respond(Request("subscribe_to_publisher", u, 0, 0, "forbidden"), <<>>, <<>>)
       ELSE IF publisher_id \notin PublisherIds
       THEN /\ UNCHANGED publisher_subscriptions
            /\ Respond(Request("subscribe_to_publisher", u, publisher_id, 0, "404"), <<>>, <<>>)
       ELSE LET r == Subscribe(publisher_subscriptions, u, publisher_id) IN
            /\ r.outcome = "subscribed" => SubscriptionRows < MaxSubscriptionRows
            /\ publisher_subscriptions' = r.table
            /\ Respond(Request("subscribe_to_publisher", u, publisher_id, 0, r.outcome), <<>>, <<>>)
    /\ UNCHANGED <<people, profiles, content, journalist_subscriptions, applications, resets, running>>

unsubscribe_from_publisher(u, publisher_id) ==
    /\ u \in users
    /\ IF role[u] # "reader"
       THEN /\ UNCHANGED publisher_subscriptions
            /\ Respond(Request("unsubscribe_from_publisher", u, 0, 0, "forbidden"), <<>>, <<>>)
       ELSE IF publisher_id \notin PublisherIds
       THEN /\ UNCHANGED publisher_subscriptions
            /\ Respond(Request("unsubscribe_from_publisher", u, publisher_id, 0, "404"), <<>>, <<>>)
       ELSE LET r == Unsubscribe(publisher_subscriptions, u, publisher_id) IN
            /\ publisher_subscriptions' = r.table
            /\ Respond(Request("unsubscribe_from_publisher", u, publisher_id, 0, r.outcome), <<>>, <<>>)
    /\ UNCHANGED <<people, profiles, content, journalist_subscriptions, applications, resets, running>>

\* ------------------------------------------------------------------ subscriptions in the admin site

\* The views of the admin site read the row first (get_object): when no row
\* has the key, the change view and the delete view answer with the redirect
\* to the index page ("missing").

\* What the add and change forms of JournalistSubscriptionAdmin and
\* PublisherSubscriptionAdmin post: reader, journalist or publisher, is_active
\* (subscribed_at is read-only).
SubscriptionForm(reader, target, is_active) == Row(reader, target, is_active)

\* ModelForm.is_valid for the row with key i (0: a new row): the reader is one
\* of the users limit_choices_to lets through, the target exists, and no other
\* row has the pair (unique_together).
SubscriptionForm_is_valid(table, targets, i, form) ==
    /\ form.reader \in Readers
    /\ form.target \in targets
    /\ KeysOf(table, <<form.reader, form.target>>) \subseteq {i}

JournalistSubscriptionAdmin_add_view(staff, form) ==
    /\ staff \in users
    /\ is_staff(staff)
    /\ IF SubscriptionForm_is_valid(journalist_subscriptions, JournalistIds, 0, form)
       THEN /\ SubscriptionRows < MaxSubscriptionRows
            /\ journalist_subscriptions' = Append(journalist_subscriptions, form)
            /\ Respond(Request("JournalistSubscriptionAdmin_add_view", staff,
                               Len(journalist_subscriptions) + 1, 0, "added"), <<>>, <<>>)
       ELSE /\ UNCHANGED journalist_subscriptions
            /\ Respond(Request("JournalistSubscriptionAdmin_add_view", staff, 0, 0, "invalid"),
                       <<>>, <<>>)
    /\ UNCHANGED <<people, profiles, content, publisher_subscriptions, applications, resets, running>>

JournalistSubscriptionAdmin_change_view(staff, i, form) ==
    /\ staff \in users
    /\ is_staff(staff)
    /\ IF i \notin RowIds(journalist_subscriptions)
       THEN /\ UNCHANGED journalist_subscriptions
            /\ Respond(Request("JournalistSubscriptionAdmin_change_view", staff, i, 0, "missing"),
                       <<>>, <<>>)
       ELSE IF SubscriptionForm_is_valid(journalist_subscriptions, JournalistIds, i, form)
       THEN /\ journalist_subscriptions' = [journalist_subscriptions EXCEPT ![i] = form]
            /\ Respond(Request("JournalistSubscriptionAdmin_change_view", staff, i, 0, "changed"),
                       <<>>, <<>>)
       ELSE /\ UNCHANGED journalist_subscriptions
            /\ Respond(Request("JournalistSubscriptionAdmin_change_view", staff, i, 0, "invalid"),
                       <<>>, <<>>)
    /\ UNCHANGED <<people, profiles, content, publisher_subscriptions, applications, resets, running>>

JournalistSubscriptionAdmin_delete_view(staff, i) ==
    /\ staff \in users
    /\ is_staff(staff)
    /\ IF i \notin RowIds(journalist_subscriptions)
       THEN /\ UNCHANGED journalist_subscriptions
            /\ Respond(Request("JournalistSubscriptionAdmin_delete_view", staff, i, 0, "missing"),
                       <<>>, <<>>)
       ELSE /\ journalist_subscriptions' = DeleteRowAt(journalist_subscriptions, i)
            /\ Respond(Request("JournalistSubscriptionAdmin_delete_view", staff, i, 0, "deleted"),
                       <<>>, <<>>)
    /\ UNCHANGED <<people, profiles, content, publisher_subscriptions, applications, resets, running>>

PublisherSubscriptionAdmin_add_view(staff, form) ==
    /\ staff \in users
    /\ is_staff(staff)
    /\ IF SubscriptionForm_is_valid(publisher_subscriptions, PublisherIds, 0, form)
       THEN /\ SubscriptionRows < MaxSubscriptionRows
            /\ publisher_subscriptions' = Append(publisher_subscriptions, form)
            /\ Respond(Request("PublisherSubscriptionAdmin_add_view", staff,
                               Len(publisher_subscriptions) + 1, 0, "added"), <<>>, <<>>)
       ELSE /\ UNCHANGED publisher_subscriptions
            /\ Respond(Request("PublisherSubscriptionAdmin_add_view", staff, 0, 0, "invalid"),
                       <<>>, <<>>)
    /\ UNCHANGED <<people, profiles, content, journalist_subscriptions, applications, resets, running>>

PublisherSubscriptionAdmin_change_view(staff, i, form) ==
    /\ staff \in users
    /\ is_staff(staff)
    /\ IF i \notin RowIds(publisher_subscriptions)
       THEN /\ UNCHANGED publisher_subscriptions
            /\ Respond(Request("PublisherSubscriptionAdmin_change_view", staff, i, 0, "missing"),
                       <<>>, <<>>)
       ELSE IF SubscriptionForm_is_valid(publisher_subscriptions, PublisherIds, i, form)
       THEN /\ publisher_subscriptions' = [publisher_subscriptions EXCEPT ![i] = form]
            /\ Respond(Request("PublisherSubscriptionAdmin_change_view", staff, i, 0, "changed"),
                       <<>>, <<>>)
       ELSE /\ UNCHANGED publisher_subscriptions
            /\ Respond(Request("PublisherSubscriptionAdmin_change_view", staff, i, 0, "invalid"),
                       <<>>, <<>>)
    /\ UNCHANGED <<people, profiles, content, journalist_subscriptions, applications, resets, running>>

PublisherSubscriptionAdmin_delete_view(staff, i) ==
    /\ staff \in users
    /\ is_staff(staff)
    /\ IF i \notin RowIds(publisher_subscriptions)
       THEN /\ UNCHANGED publisher_subscriptions
            /\ Respond(Request("PublisherSubscriptionAdmin_delete_view", staff, i, 0, "missing"),
                       <<>>, <<>>)
       ELSE /\ publisher_subscriptions' = DeleteRowAt(publisher_subscriptions, i)
            /\ Respond(Request("PublisherSubscriptionAdmin_delete_view", staff, i, 0, "deleted"),
                       <<>>, <<>>)
    /\ UNCHANGED <<people, profiles, content, journalist_subscriptions, applications, resets, running>>

\* ------------------------------------------------------------------ role applications

\* Editor.objects.get_or_create(user=u, publisher=p): the row is found, or it is
\* created unless the one-to-one constraint on user refuses it (IntegrityError).
\* `created' is the second value get_or_create returns: whether it inserted.
Editor_get_or_create(u, p) ==
    IF [user |-> u, publisher |-> p] \in editors
    THEN [ok |-> TRUE, created |-> FALSE, rows |-> editors]
    ELSE IF \E e \in editors : e.user = u
    THEN [ok |-> FALSE, created |-> FALSE, rows |-> editors]
    ELSE [ok |-> TRUE, created |-> TRUE, rows |-> editors \cup {[user |-> u, publisher |-> p]}]

\* Variant: create() with no constraint on user: every call inserts.
Journalist_create(u, p) ==
    [ok |-> TRUE, created |-> TRUE, rows |-> journalists \cup {[user |-> u, publisher |-> p]}]

\* Journalist.objects.get_or_create(user=u, publisher=p)
Journalist_get_or_create(u, p) ==
    IF [user |-> u, publisher |-> p] \in journalists
    THEN [ok |-> TRUE, created |-> FALSE, rows |-> journalists]
    ELSE IF \E j \in journalists : j.user = u
    THEN [ok |-> FALSE, created |-> FALSE, rows |-> journalists]
    ELSE [ok |-> TRUE, created |-> TRUE, rows |-> journalists \cup {[user |-> u, publisher |-> p]}]

\* Publisher.objects.get_or_create(user=u, name=n): user is one-to-one, name is unique.
Publisher_get_or_create(u, n) ==
    IF [user |-> u, name |-> n] \in publishers
    THEN [ok |-> TRUE, created |-> FALSE, rows |-> publishers]
    ELSE IF \E q \in publishers : q.user = u \/ q.name = n
    THEN [ok |-> FALSE, created |-> FALSE, rows |-> publishers]
    ELSE [ok |-> TRUE, created |-> TRUE, rows |-> publishers \cup {[user |-> u, name |-> n]}]

\* Variant: only the publisher branch creates a profile.
CreateProfile_publisher_only(u, applied_role, publisher) ==
    IF applied_role = "publisher"
    THEN LET r == Publisher_get_or_create(u, PublishingName(u)) IN
         [ok |-> r.ok, created |-> r.created,
          publishers |-> r.rows, editors |-> editors, journalists |-> journalists]
    ELSE [ok |-> TRUE, created |-> FALSE,
          publishers |-> publishers, editors |-> editors, journalists |-> journalists]

\* The role-specific profile of an approval: the three tables afterwards,
\* whether the insert was accepted, and whether a row was inserted.
CreateProfile(u, applied_role, publisher) ==
    IF applied_role = "editor" /\ publisher # NoPublisher
    THEN LET r == Editor_get_or_create(u, publisher) IN
         [ok |-> r.ok, created |-> r.created,
          publishers |-> publishers, editors |-> r.rows, journalists |-> journalists]
    ELSE IF applied_role = "journalist" /\ publisher # NoPublisher
    THEN LET r == Journalist_get_or_create(u, publisher) IN
         [ok |-> r.ok, created |-> r.created,
          publishers |-> publishers, editors |-> editors, journalists |-> r.rows]
    ELSE IF applied_role = "publisher"
    THEN LET r == Publisher_get_or_create(u, PublishingName(u)) IN
         [ok |-> r.ok, created |-> r.created,
          publishers |-> r.rows, editors |-> editors, journalists |-> journalists]
    ELSE [ok |-> TRUE, created |-> FALSE,
          publishers |-> publishers, editors |-> editors, journalists |-> journalists]

\* RoleApplication.objects.filter(user=u, status="pending").first()
HasPending(u) ==
    \E i \in ApplicationIds :
        applications[i].user = u /\ applications[i].status = "pending"

\* `valid': RoleApplicationForm.is_valid(), false when the motivation is empty.
apply_for_role(u, method, applied_role, valid) ==
    /\ u \in users
    /\ IF role[u] # "reader"
       THEN /\ UNCHANGED applications
            /\ Respond(Request("apply_for_role", u, 0, 0, "forbidden"), <<>>, <<>>)
       ELSE IF HasPending(u)
       THEN /\ UNCHANGED applications
            /\ Respond(Request("apply_for_role", u, 0, 0, "application_pending"), <<>>, <<>>)
       ELSE IF method = "POST" /\ valid
       THEN /\ Len(applications) < MaxApplications
            /\ applications' = Append(applications,
                   [user |-> u, applied_role |-> applied_role, status |-> "pending"])
            /\ Respond(Request("apply_for_role", u, Len(applications) + 1, 0, "applied"), <<>>, <<>>)
       ELSE /\ UNCHANGED applications
            /\ Respond(Request("apply_for_role", u, 0, 0, "form"), <<>>, <<>>)
    /\ UNCHANGED <<people, profiles, content, subs, resets, running>>

\* The staff view.  Each save commits on its own: when the profile insert is
\* refused, the status, the role and the deactivation are already stored.
approve_role_application(staff, pk, method, publisher_id) ==
    /\ staff \in users
    /\ IF ~is_staff(staff)
       THEN /\ UNCHANGED <<role, groups, profiles, subs, applications>>
            /\ Respond(Request("approve_role_application", staff, pk, 0, "login"), <<>>, <<>>)
       ELSE IF pk \notin ApplicationIds
       THEN /\ UNCHANGED <<role, groups, profiles, subs, applications>>
            /\ Respond(Request("approve_role_application", staff, pk, 0, "404"), <<>>, <<>>)
       ELSE IF method # "POST"
       THEN /\ UNCHANGED <<role, groups, profiles, subs, applications>>
            /\ Respond(Request("approve_role_application", staff, pk, 0, "redirect"), <<>>, <<>>)
       ELSE IF publisher_id # NoPublisher /\ publisher_id \notin PublisherIds
       THEN /\ UNCHANGED <<role, groups, profiles, subs, applications>>
            /\ Respond(Request("approve_role_application", staff, pk, publisher_id, "404"), <<>>, <<>>)
       ELSE LET application == applications[pk]
                user == application.user
                made == CreateProfile(user, application.applied_role, publisher_id)
            IN
            /\ applications' = [applications EXCEPT ![pk].status = "approved"]
            /\ role' = [role EXCEPT ![user] = application.applied_role]
            /\ groups' = CustomUser_save_groups(groups, user, application.applied_role)
            /\ journalist_subscriptions' =
                   DeactivateAll(CustomUser_save(journalist_subscriptions, user,
                                                 role[user], application.applied_role), user)
            /\ publisher_subscriptions' =
                   DeactivateAll(CustomUser_save(publisher_subscriptions, user,
                                                 role[user], application.applied_role), user)
            /\ publishers' = made.publishers
            /\ editors' = made.editors
            /\ journalists' = made.journalists
            /\ IF made.ok
               THEN Respond(ApprovedRequest("approve_role_application", staff, pk, publisher_id,
                                     application.status, made.created),
                            <<Mail("role_approved", email[user], pk)>>, <<>>)
               ELSE Respond(Request("approve_role_application", staff, pk, publisher_id, "IntegrityError"),
                            <<>>, <<>>)
    /\ UNCHANGED <<users, email, password, content, resets, running>>

\* Variant: a rejection also puts the user back to reader.
reject_role_application_resetting_role(staff, pk) ==
    /\ staff \in users
    /\ IF ~is_staff(staff)
       THEN /\ UNCHANGED <<applications, role, groups>>
            /\ Respond(Request("reject_role_application", staff, pk, 0, "login"), <<>>, <<>>)
       ELSE IF pk \notin ApplicationIds
       THEN /\ UNCHANGED <<applications, role, groups>>
            /\ Respond(Request("reject_role_application", staff, pk, 0, "404"), <<>>, <<>>)
       ELSE /\ applications' = [applications EXCEPT ![pk].status = "rejected"]
            /\ role' = [role EXCEPT ![applications[pk].user] = "reader"]
            /\ groups' = CustomUser_save_groups(groups, applications[pk].user, "reader")
            /\ Respond(Request("reject_role_application", staff, pk, 0, "rejected"),
                       <<Mail("role_rejected", email[applications[pk].user], pk)>>, <<>>)
    /\ UNCHANGED <<users, email, password, profiles, content, subs, resets, running>>

reject_role_application(staff, pk) ==
    /\ staff \in users
    /\ IF ~is_staff(staff)
       THEN /\ UNCHANGED applications
            /\ Respond(Request("reject_role_application", staff, pk, 0, "login"), <<>>, <<>>)
       ELSE IF pk \notin ApplicationIds
       THEN /\ UNCHANGED applications
            /\ Respond(Request("reject_role_application", staff, pk, 0, "404"), <<>>, <<>>)
       ELSE /\ applications' = [applications EXCEPT ![pk].status = "rejected"]
            /\ Respond(Request("reject_role_application", staff, pk, 0, "rejected"),
                       <<Mail("role_rejected", email[applications[pk].user], pk)>>, <<>>)
    /\ UNCHANGED <<people, profiles, content, subs, resets, running>>

\* What the add and change forms of RoleApplicationAdmin post: every field of
\* the model (fields = "__all__"; a valid form has a motivation) and the
\* publisher to assign, if any.
ApplicationForm(user, applied_role, status, publisher) ==
    [user |-> user, applied_role |-> applied_role, status |-> status, publisher |-> publisher]

\* RoleApplicationAdmin.save_model for a valid form, of the change view of row
\* pk or of the add view (pk is then the next key).  The object is saved as
\* posted; the approved and the rejected branch work on the posted user and
\* applied_role.  The view is one transaction, so a refused profile insert
\* undoes the whole request.
RoleApplicationAdmin_save_model(staff, pk, form) ==
    /\ staff \in users
    /\ is_staff(staff)
    /\ pk \in ApplicationIds \cup {Len(applications) + 1}
    /\ pk \notin DOMAIN applications => Len(applications) < MaxApplications
    /\ form.user \in users
    /\ form.applied_role \in APPLIED_ROLE_CHOICES
    /\ form.status \in STATUS_CHOICES
    /\ form.publisher \in PublisherIds \cup {NoPublisher}
    /\ LET obj == [user |-> form.user, applied_role |-> form.applied_role, status |-> form.status]
           saved == IF pk \in DOMAIN applications THEN [applications EXCEPT ![pk] = obj]
                    ELSE Append(applications, obj)
           user == obj.user
           made == CreateProfile(user, obj.applied_role, form.publisher)
       IN
       IF obj.status = "approved" /\ made.ok
       THEN /\ applications' = saved
            /\ role' = [role EXCEPT ![user] = obj.applied_role]
            /\ groups' = CustomUser_save_groups(groups, user, obj.applied_role)
            /\ journalist_subscriptions' =
                   DeactivateAll(CustomUser_save(journalist_subscriptions, user,
                                                 role[user], obj.applied_role), user)
            /\ publisher_subscriptions' =
                   DeactivateAll(CustomUser_save(publisher_subscriptions, user,
                                                 role[user], obj.applied_role), user)
            /\ publishers' = made.publishers
            /\ editors' = made.editors
            /\ journalists' = made.journalists
            /\ Respond(ApprovedRequest("RoleApplicationAdmin_save_model", staff, pk, form.publisher,
                                IF pk \in DOMAIN applications
                                THEN applications[pk].status ELSE "",
                                made.created),
                       <<Mail("role_approved", email[user], pk)>>, <<>>)
       ELSE IF obj.status = "approved"
       THEN /\ UNCHANGED <<role, groups, profiles, subs, applications>>
            /\ Respond(Request("RoleApplicationAdmin_save_model", staff, pk, form.publisher,
                               "IntegrityError"), <<>>, <<>>)
       ELSE IF obj.status = "rejected"
       THEN /\ applications' = saved
            /\ UNCHANGED <<role, groups, profiles, subs>>
            /\ Respond(Request("RoleApplicationAdmin_save_model", staff, pk, form.publisher, "rejected"),
                       <<Mail("role_rejected", email[user], pk)>>, <<>>)
       ELSE /\ applications' = saved
            /\ UNCHANGED <<role, groups, profiles, subs>>
            /\ Respond(Request("RoleApplicationAdmin_save_model", staff, pk, form.publisher, "saved"),
                       <<>>, <<>>)
    /\ UNCHANGED <<users, email, password, content, resets, running>>

\* The delete view of RoleApplicationAdmin: the row goes, nothing else
\* changes; when no row has the key, the redirect to the index page.
RoleApplicationAdmin_delete_view(staff, pk) ==
    /\ staff \in users
    /\ is_staff(staff)
    /\ IF pk \notin ApplicationIds
       THEN /\ UNCHANGED applications
            /\ Respond(Request("RoleApplicationAdmin_delete_view", staff, pk, 0, "missing"),
                       <<>>, <<>>)
       ELSE /\ applications' = [applications EXCEPT ![pk] = DeletedApplication]
            /\ Respond(Request("RoleApplicationAdmin_delete_view", staff, pk, 0, "deleted"),
                       <<>>, <<>>)
    /\ UNCHANGED <<people, profiles, content, subs, resets, running>>

\* ------------------------------------------------------------------ notifications

\* Variant: one email per subscription row read, whatever the address.
RECURSIVE NotifyEach_per_row(_, _, _, _)
NotifyEach_per_row(subscribers, seen, kind, about) ==
    IF subscribers = <<>> THEN <<>>
    ELSE <<Mail(kind, email[Head(subscribers)], about)>> \o
         NotifyEach_per_row(Tail(subscribers), seen, kind, about)

\* The loop of send_article_subscriber_notifications and of
\* send_newsletter_notifications: one email per address not seen before.
RECURSIVE NotifyEach(_, _, _, _)
NotifyEach(subscribers, seen, kind, about) ==
    IF subscribers = <<>> THEN <<>>
    ELSE LET to == email[Head(subscribers)] IN
         IF to \in seen
         THEN NotifyEach(Tail(subscribers), seen, kind, about)
         ELSE <<Mail(kind, to, about)>> \o
              NotifyEach(Tail(subscribers), seen \cup {to}, kind, about)

\* list(journalist_subscribers) + list(publisher_subscribers), the readers
all_subscribers(journalist, publisher) ==
    ActiveReaders(journalist_subscriptions, journalist) \o
    ActiveReaders(publisher_subscriptions, publisher)

\* The status email to the journalist who owns the article.
send_article_approval_notification(article, pk) ==
    <<Mail("article_status", email[article.journalist], pk)>>

send_article_subscriber_notifications(article, pk) ==
    IF article.status # "approved" THEN <<>>
    ELSE NotifyEach(all_subscribers(article.journalist, article.publisher),
                    {}, "new_article", pk)

send_newsletter_confirmation_email(newsletter, pk) ==
    <<Mail("newsletter_created", email[newsletter.journalist], pk)>>

send_newsletter_notifications(newsletter, pk) ==
    NotifyEach(all_subscribers(newsletter.journalist, newsletter.publisher),
               {}, "new_newsletter", pk)

\* ------------------------------------------------------------------ articles and newsletters

\* The title and content a create request posts, and those of a later edit.
FirstText == "first text"
EditedText == "edited text"

\* What a create request posts: whether title and content pass validation,
\* title and content themselves, and the status, journalist and publisher
\* values it carries besides ("" and 0: none).
ArticleData(valid, status, journalist, publisher) ==
    [valid |-> valid, text |-> FirstText, status |-> status,
     journalist |-> journalist, publisher |-> publisher]

\* What an edit posts.
EditData(valid, status, journalist, publisher) ==
    [ArticleData(valid, status, journalist, publisher) EXCEPT !.text = EditedText]

PlainArticleData == ArticleData(TRUE, "", 0, 0)

\* Variant: the form and the serializer take every field the request carries.
Article_from_all_fields(data) ==
    [text |-> data.text, journalist |-> data.journalist, publisher |-> data.publisher,
     status |-> IF data.status = "" THEN "pending" ELSE data.status]

\* ArticleForm and ArticleCreateSerializer have fields = ["title", "content"]:
\* the instance they build has the model defaults elsewhere, status = pending
\* and no journalist or publisher yet.
Article_from(data) ==
    [text |-> data.text, journalist |-> 0, publisher |-> 0, status |-> "pending"]

submit_article(u, method, data) ==
    /\ u \in users
    /\ IF role[u] # "journalist"
       THEN /\ UNCHANGED articles
            /\ Respond(Request("submit_article", u, 0, 0, "forbidden"), <<>>, <<>>)
       ELSE IF method # "POST"
       THEN /\ UNCHANGED articles
            /\ Respond(Request("submit_article", u, 0, 0, "form"), <<>>, <<>>)
       ELSE IF ~data.valid
       THEN /\ UNCHANGED articles
            /\ Respond(Request("submit_article", u, 0, 0, "invalid"), <<>>, <<>>)
       ELSE IF ~has_journalist_profile(u)
       THEN /\ UNCHANGED articles
            /\ Respond(Request("submit_article", u, 0, 0, "RelatedObjectDoesNotExist"), <<>>, <<>>)
       ELSE /\ Len(articles) < MaxArticles
            /\ articles' = Append(articles,
                   [Article_from(data) EXCEPT !.journalist = u,
                                              !.publisher = journalist_profile(u).publisher])
            /\ Respond(Request("submit_article", u, Len(articles) + 1, data, "submitted"), <<>>, <<>>)
    /\ UNCHANGED <<people, profiles, newsletters, subs, applications, resets, running>>

\* IsJournalistOrPublisher: the roles let through to the create actions of the API.
IsJournalistOrPublisher(u) == role[u] \in {"journalist", "publisher", "editor"}

\* ArticleViewSet.create (API POST /articles/).
ArticleViewSet_create(u, data) ==
    /\ u \in users
    /\ IF ~IsJournalistOrPublisher(u)
       THEN /\ UNCHANGED articles
            /\ Respond(Request("ArticleViewSet_create", u, 0, 0, "403"), <<>>, <<>>)
       ELSE IF ~has_journalist_profile(u)
       THEN /\ UNCHANGED articles
            /\ Respond(Request("ArticleViewSet_create", u, 0, 0, "403"), <<>>, <<>>)
       ELSE IF ~data.valid
       THEN /\ UNCHANGED articles
            /\ Respond(Request("ArticleViewSet_create", u, 0, 0, "400"), <<>>, <<>>)
       ELSE /\ Len(articles) < MaxArticles
            /\ articles' = Append(articles,
                   [Article_from(data) EXCEPT !.journalist = u,
                                              !.publisher = journalist_profile(u).publisher,
                                              !.status = "pending"])
            /\ Respond(Request("ArticleViewSet_create", u, Len(articles) + 1, data, "201"), <<>>, <<>>)
    /\ UNCHANGED <<people, profiles, newsletters, subs, applications, resets, running>>

\* Variant: the form also takes the status, journalist and publisher posted.
ArticleForm_save_all_fields(instance, data) ==
    [instance EXCEPT !.text = data.text,
                     !.status = IF data.status = "" THEN @ ELSE data.status,
                     !.journalist = IF data.journalist = 0 THEN @ ELSE data.journalist,
                     !.publisher = IF data.publisher = 0 THEN @ ELSE data.publisher]

\* ArticleForm(request.POST, instance=article).save(): title and content of the
\* instance are replaced, the other fields are saved as they were loaded.
ArticleForm_save(instance, data) == [instance EXCEPT !.text = data.text]

update_article(u, pk, method, data) ==
    /\ u \in users
    /\ IF pk \notin ArticleIds
       THEN /\ UNCHANGED articles
            /\ Respond(Request("update_article", u, pk, data, "404"), <<>>, <<>>)
       ELSE IF role[u] = "editor" /\ ~has_editor_profile(u)
       THEN /\ UNCHANGED articles
            /\ Respond(Request("update_article", u, pk, data, "RelatedObjectDoesNotExist"), <<>>, <<>>)
       ELSE IF role[u] = "editor" /\ articles[pk].publisher # editor_profile(u).publisher
       THEN /\ UNCHANGED articles
            /\ Respond(Request("update_article", u, pk, data, "other_publisher"), <<>>, <<>>)
       ELSE IF role[u] = "journalist" /\ ~has_journalist_profile(u)
       THEN /\ UNCHANGED articles
            /\ Respond(Request("update_article", u, pk, data, "RelatedObjectDoesNotExist"), <<>>, <<>>)
       ELSE IF role[u] = "journalist" /\ articles[pk].journalist # journalist_profile(u).user
       THEN /\ UNCHANGED articles
            /\ Respond(Request("update_article", u, pk, data, "not_own"), <<>>, <<>>)
       ELSE IF role[u] \notin {"editor", "journalist"}
       THEN /\ UNCHANGED articles
            /\ Respond(Request("update_article", u, pk, data, "forbidden"), <<>>, <<>>)
       ELSE IF method = "POST" /\ data.valid
       THEN /\ articles' = [articles EXCEPT ![pk] = ArticleForm_save(articles[pk], data)]
            /\ Respond(Request("update_article", u, pk, data, "updated"), <<>>, <<>>)
       ELSE /\ UNCHANGED articles
            /\ Respond(Request("update_article", u, pk, data, "form"), <<>>, <<>>)
    /\ UNCHANGED <<people, profiles, newsletters, subs, applications, resets, running>>

\* delete_article: the permission checks of update_article, then a POST
\* deletes the row and a GET shows the confirmation page.
delete_article(u, pk, method) ==
    /\ u \in users
    /\ IF pk \notin ArticleIds
       THEN /\ UNCHANGED articles
            /\ Respond(Request("delete_article", u, pk, method, "404"), <<>>, <<>>)
       ELSE IF role[u] = "editor" /\ ~has_editor_profile(u)
       THEN /\ UNCHANGED articles
            /\ Respond(Request("delete_article", u, pk, method, "RelatedObjectDoesNotExist"), <<>>, <<>>)
       ELSE IF role[u] = "editor" /\ articles[pk].publisher # editor_profile(u).publisher
       THEN /\ UNCHANGED articles
            /\ Respond(Request("delete_article", u, pk, method, "other_publisher"), <<>>, <<>>)
       ELSE IF role[u] = "journalist" /\ ~has_journalist_profile(u)
       THEN /\ UNCHANGED articles
            /\ Respond(Request("delete_article", u, pk, method, "RelatedObjectDoesNotExist"), <<>>, <<>>)
       ELSE IF role[u] = "journalist" /\ articles[pk].journalist # journalist_profile(u).user
       THEN /\ UNCHANGED articles
            /\ Respond(Request("delete_article", u, pk, method, "not_own"), <<>>, <<>>)
       ELSE IF role[u] \notin {"editor", "journalist"}
       THEN /\ UNCHANGED articles
            /\ Respond(Request("delete_article", u, pk, method, "forbidden"), <<>>, <<>>)
       ELSE IF method = "POST"
       THEN /\ articles' = [articles EXCEPT ![pk] = DeletedArticle]
            /\ Respond(Request("delete_article", u, pk, method, "deleted"), <<>>, <<>>)
       ELSE /\ UNCHANGED articles
            /\ Respond(Request("delete_article", u, pk, method, "confirm"), <<>>, <<>>)
    /\ UNCHANGED <<people, profiles, newsletters, subs, applications, resets, running>>

\* Variant: any editor may review, whatever the publisher.
MayReview_any_editor(u, article) == role[u] = "editor"

\* role == "editor" and article.publisher == request.user.editor_profile.publisher:
\* the second operand is read only for an editor, and raises without a profile.
MayReview(u, article) ==
    /\ role[u] = "editor"
    /\ article.publisher = editor_profile(u).publisher

approve_article(u, pk) ==
    /\ u \in users
    /\ IF pk \notin ArticleIds
       THEN /\ UNCHANGED articles
            /\ Respond(Request("approve_article", u, pk, 0, "404"), <<>>, <<>>)
       ELSE IF role[u] = "editor" /\ ~has_editor_profile(u)
       THEN /\ UNCHANGED articles
            /\ Respond(Request("approve_article", u, pk, 0, "RelatedObjectDoesNotExist"), <<>>, <<>>)
       ELSE IF MayReview(u, articles[pk])
       THEN LET article == [articles[pk] EXCEPT !.status = "approved"] IN
            /\ articles' = [articles EXCEPT ![pk] = article]
            /\ Respond(Request("approve_article", u, pk, 0, "approved"),
                       send_article_approval_notification(article, pk) \o
                       send_article_subscriber_notifications(article, pk),
                       <<pk>>)
       ELSE /\ UNCHANGED articles
            /\ Respond(Request("approve_article", u, pk, 0, "forbidden"), <<>>, <<>>)
    /\ UNCHANGED <<people, profiles, newsletters, subs, applications, resets, running>>

reject_article(u, pk) ==
    /\ u \in users
    /\ IF pk \notin ArticleIds
       THEN /\ UNCHANGED articles
            /\ Respond(Request("reject_article", u, pk, 0, "404"), <<>>, <<>>)
       ELSE IF role[u] = "editor" /\ ~has_editor_profile(u)
       THEN /\ UNCHANGED articles
            /\ Respond(Request("reject_article", u, pk, 0, "RelatedObjectDoesNotExist"), <<>>, <<>>)
       ELSE IF MayReview(u, articles[pk])
       THEN LET article == [articles[pk] EXCEPT !.status = "rejected"] IN
            /\ articles' = [articles EXCEPT ![pk] = article]
            /\ Respond(Request("reject_article", u, pk, 0, "rejected"),
                       send_article_approval_notification(article, pk), <<>>)
       ELSE /\ UNCHANGED articles
            /\ Respond(Request("reject_article", u, pk, 0, "forbidden"), <<>>, <<>>)
    /\ UNCHANGED <<people, profiles, newsletters, subs, applications, resets, running>>

\* The admin list actions: queryset.update(status=...), no email, no post.
ArticleAdmin_approve_articles(staff, queryset) ==
    /\ staff \in users
    /\ is_staff(staff)
    /\ queryset \subseteq ArticleIds
    /\ articles' = [pk \in DOMAIN articles |->
                       IF pk \in queryset THEN [articles[pk] EXCEPT !.status = "approved"]
                       ELSE articles[pk]]
    /\ Respond(Request("ArticleAdmin_approve_articles", staff, queryset, 0, "updated"), <<>>, <<>>)
    /\ UNCHANGED <<people, profiles, newsletters, subs, applications, resets, running>>

ArticleAdmin_reject_articles(staff, queryset) ==
    /\ staff \in users
    /\ is_staff(staff)
    /\ queryset \subseteq ArticleIds
    /\ articles' = [pk \in DOMAIN articles |->
                       IF pk \in queryset THEN [articles[pk] EXCEPT !.status = "rejected"]
                       ELSE articles[pk]]
    /\ Respond(Request("ArticleAdmin_reject_articles", staff, queryset, 0, "updated"), <<>>, <<>>)
    /\ UNCHANGED <<people, profiles, newsletters, subs, applications, resets, running>>

\* What the add and change forms of the registered ArticleAdmin post: every
\* editable field of the model (created_at and updated_at are not editable).
ArticleAdminForm(text, journalist, publisher, status) ==
    [text |-> text, journalist |-> journalist, publisher |-> publisher, status |-> status]

\* ModelForm.is_valid: title and content are given, journalist and publisher
\* are rows of their tables, status is one of the choices.
ArticleAdminForm_is_valid(form) ==
    /\ form.text # ""
    /\ form.journalist \in JournalistIds
    /\ form.publisher \in PublisherIds
    /\ form.status \in STATUS_CHOICES

\* The change form: the row is saved as posted, no email, no post; when no
\* row has the key, the redirect to the index page.
ArticleAdmin_change_form(staff, pk, form) ==
    /\ staff \in users
    /\ is_staff(staff)
    /\ IF pk \notin ArticleIds
       THEN /\ UNCHANGED articles
            /\ Respond(Request("ArticleAdmin_change_form", staff, pk, form, "missing"), <<>>, <<>>)
       ELSE IF ArticleAdminForm_is_valid(form)
       THEN /\ articles' = [articles EXCEPT ![pk] = form]
            /\ Respond(Request("ArticleAdmin_change_form", staff, pk, form, "saved"), <<>>, <<>>)
       ELSE /\ UNCHANGED articles
            /\ Respond(Request("ArticleAdmin_change_form", staff, pk, form, "invalid"), <<>>, <<>>)
    /\ UNCHANGED <<people, profiles, newsletters, subs, applications, resets, running>>

\* The add form: a new row with the posted fields, whatever its status.
ArticleAdmin_add_view(staff, form) ==
    /\ staff \in users
    /\ is_staff(staff)
    /\ IF ArticleAdminForm_is_valid(form)
       THEN /\ Len(articles) < MaxArticles
            /\ articles' = Append(articles, form)
            /\ Respond(Request("ArticleAdmin_add_view", staff, Len(articles) + 1, form, "added"),
                       <<>>, <<>>)
       ELSE /\ UNCHANGED articles
            /\ Respond(Request("ArticleAdmin_add_view", staff, 0, form, "invalid"), <<>>, <<>>)
    /\ UNCHANGED <<people, profiles, newsletters, subs, applications, resets, running>>

\* The delete view (and, row by row, the delete_selected list action).
ArticleAdmin_delete_view(staff, pk) ==
    /\ staff \in users
    /\ is_staff(staff)
    /\ IF pk \notin ArticleIds
       THEN /\ UNCHANGED articles
            /\ Respond(Request("ArticleAdmin_delete_view", staff, pk, 0, "missing"), <<>>, <<>>)
       ELSE /\ articles' = [articles EXCEPT ![pk] = DeletedArticle]
            /\ Respond(Request("ArticleAdmin_delete_view", staff, pk, 0, "deleted"), <<>>, <<>>)
    /\ UNCHANGED <<people, profiles, newsletters, subs, applications, resets, running>>

\* `valid': NewsletterForm.is_valid(), false when title or content is empty.
create_newsletter(u, method, valid) ==
    /\ u \in users
    /\ IF role[u] # "journalist"
       THEN /\ UNCHANGED newsletters
            /\ Respond(Request("create_newsletter", u, 0, 0, "forbidden"), <<>>, <<>>)
       ELSE IF method # "POST" \/ ~valid
       THEN /\ UNCHANGED newsletters
            /\ Respond(Request("create_newsletter", u, 0, 0, "form"), <<>>, <<>>)
       ELSE IF ~has_journalist_profile(u)
       THEN /\ UNCHANGED newsletters
            /\ Respond(Request("create_newsletter", u, 0, 0, "RelatedObjectDoesNotExist"), <<>>, <<>>)
       ELSE LET newsletter == [text |-> FirstText, journalist |-> u,
                               publisher |-> journalist_profile(u).publisher]
                pk == Len(newsletters) + 1
            IN
            /\ Len(newsletters) < MaxNewsletters
            /\ newsletters' = Append(newsletters, newsletter)
            /\ Respond(Request("create_newsletter", u, pk, 0, "created"),
                       send_newsletter_confirmation_email(newsletter, pk) \o
                       send_newsletter_notifications(newsletter, pk),
                       <<>>)
    /\ UNCHANGED <<people, profiles, articles, subs, applications, resets, running>>

\* NewsletterForm(request.POST, instance=newsletter).save()
NewsletterForm_save(instance, data) == [instance EXCEPT !.text = data.text]

\* update_newsletter: the journalist's own newsletter or, for an editor, one
\* of the editor's publisher; a valid POST saves title and content, no email.
update_newsletter(u, pk, method, data) ==
    /\ u \in users
    /\ IF pk \notin NewsletterIds
       THEN /\ UNCHANGED newsletters
            /\ Respond(Request("update_newsletter", u, pk, data, "404"), <<>>, <<>>)
       ELSE IF role[u] = "journalist" /\ ~has_journalist_profile(u)
       THEN /\ UNCHANGED newsletters
            /\ Respond(Request("update_newsletter", u, pk, data, "RelatedObjectDoesNotExist"), <<>>, <<>>)
       ELSE IF role[u] = "journalist" /\ newsletters[pk].journalist # journalist_profile(u).user
       THEN /\ UNCHANGED newsletters
            /\ Respond(Request("update_newsletter", u, pk, data, "not_own"), <<>>, <<>>)
       ELSE IF role[u] = "editor" /\ ~has_editor_profile(u)
       THEN /\ UNCHANGED newsletters
            /\ Respond(Request("update_newsletter", u, pk, data, "RelatedObjectDoesNotExist"), <<>>, <<>>)
       ELSE IF role[u] = "editor" /\ newsletters[pk].publisher # editor_profile(u).publisher
       THEN /\ UNCHANGED newsletters
            /\ Respond(Request("update_newsletter", u, pk, data, "other_publisher"), <<>>, <<>>)
       ELSE IF role[u] \notin {"journalist", "editor"}
       THEN /\ UNCHANGED newsletters
            /\ Respond(Request("update_newsletter", u, pk, data, "forbidden"), <<>>, <<>>)
       ELSE IF method = "POST" /\ data.valid
       THEN /\ newsletters' = [newsletters EXCEPT ![pk] = NewsletterForm_save(newsletters[pk], data)]
            /\ Respond(Request("update_newsletter", u, pk, data, "updated"), <<>>, <<>>)
       ELSE /\ UNCHANGED newsletters
            /\ Respond(Request("update_newsletter", u, pk, data, "form"), <<>>, <<>>)
    /\ UNCHANGED <<people, profiles, articles, subs, applications, resets, running>>

\* delete_newsletter: the same checks, then a POST deletes the row.
delete_newsletter(u, pk, method) ==
    /\ u \in users
    /\ IF pk \notin NewsletterIds
       THEN /\ UNCHANGED newsletters
            /\ Respond(Request("delete_newsletter", u, pk, method, "404"), <<>>, <<>>)
       ELSE IF role[u] = "journalist" /\ ~has_journalist_profile(u)
       THEN /\ UNCHANGED newsletters
            /\ Respond(Request("delete_newsletter", u, pk, method, "RelatedObjectDoesNotExist"), <<>>, <<>>)
       ELSE IF role[u] = "journalist" /\ newsletters[pk].journalist # journalist_profile(u).user
       THEN /\ UNCHANGED newsletters
            /\ Respond(Request("delete_newsletter", u, pk, method, "not_own"), <<>>, <<>>)
       ELSE IF role[u] = "editor" /\ ~has_editor_profile(u)
       THEN /\ UNCHANGED newsletters
            /\ Respond(Request("delete_newsletter", u, pk, method, "RelatedObjectDoesNotExist"), <<>>, <<>>)
       ELSE IF role[u] = "editor" /\ newsletters[pk].publisher # editor_profile(u).publisher
       THEN /\ UNCHANGED newsletters
            /\ Respond(Request("delete_newsletter", u, pk, method, "other_publisher"), <<>>, <<>>)
       ELSE IF role[u] \notin {"journalist", "editor"}
       THEN /\ UNCHANGED newsletters
            /\ Respond(Request("delete_newsletter", u, pk, method, "forbidden"), <<>>, <<>>)
       ELSE IF method = "POST"
       THEN /\ newsletters' = [newsletters EXCEPT ![pk] = DeletedNewsletter]
            /\ Respond(Request("delete_newsletter", u, pk, method, "deleted"), <<>>, <<>>)
       ELSE /\ UNCHANGED newsletters
            /\ Respond(Request("delete_newsletter", u, pk, method, "confirm"), <<>>, <<>>)
    /\ UNCHANGED <<people, profiles, articles, subs, applications, resets, running>>

\* NewsletterViewSet.create (API POST /newsletters/): the row is saved and
\* returned; the view calls neither notification function.
NewsletterViewSet_create(u, valid) ==
    /\ u \in users
    /\ IF ~IsJournalistOrPublisher(u)
       THEN /\ UNCHANGED newsletters
            /\ Respond(Request("NewsletterViewSet_create", u, 0, 0, "403"), <<>>, <<>>)
       ELSE IF ~has_journalist_profile(u)
       THEN /\ UNCHANGED newsletters
            /\ Respond(Request("NewsletterViewSet_create", u, 0, 0, "403"), <<>>, <<>>)
       ELSE IF ~valid
       THEN /\ UNCHANGED newsletters
            /\ Respond(Request("NewsletterViewSet_create", u, 0, 0, "400"), <<>>, <<>>)
       ELSE /\ Len(newsletters) < MaxNewsletters
            /\ newsletters' = Append(newsletters,
                   [text |-> FirstText, journalist |-> u,
                    publisher |-> journalist_profile(u).publisher])
            /\ Respond(Request("NewsletterViewSet_create", u, Len(newsletters) + 1, 0, "201"),
                       <<>>, <<>>)
    /\ UNCHANGED <<people, profiles, articles, subs, applications, resets, running>>

\* ------------------------------------------------------------------ listings

\* The keys 1..n, newest first: order_by("-created_at").
Newest(n) == [i \in 1..n |-> n + 1 - i]

\* Newsletter.objects.all().order_by("-created_at")
Newsletter_objects_all ==
    LET Stored(pk) == pk \in NewsletterIds IN SelectSeq(Newest(Len(newsletters)), Stored)

\* Article.objects.all().order_by("-created_at")
Article_objects_all ==
    LET Stored(pk) == pk \in ArticleIds IN SelectSeq(Newest(Len(articles)), Stored)

\* Variant: the two subscription tables are joined in, one result row per match.
ArticleViewSet_get_queryset_joined(user) ==
    LET ByJournalist(pk) == /\ articles[pk].status = "approved"
                            /\ IsActive(journalist_subscriptions, user, articles[pk].journalist)
        ByPublisher(pk) == /\ articles[pk].status = "approved"
                           /\ IsActive(publisher_subscriptions, user, articles[pk].publisher)
        Approved(pk) == articles[pk].status = "approved"
    IN IF role[user] = "reader"
       THEN SelectSeq(Article_objects_all, ByJournalist) \o
            SelectSeq(Article_objects_all, ByPublisher)
       ELSE SelectSeq(Article_objects_all, Approved)

\* ArticleViewSet.get_queryset: the keys of the articles of the API list.
ArticleViewSet_get_queryset(user) ==
    IF role[user] = "reader"
    THEN LET subscribed_journalist_ids == ActiveTargets(journalist_subscriptions, user)
             subscribed_publisher_ids == ActiveTargets(publisher_subscriptions, user)
             Match(pk) == /\ articles[pk].status = "approved"
                          /\ \/ articles[pk].journalist \in subscribed_journalist_ids
                             \/ articles[pk].publisher \in subscribed_publisher_ids
         IN SelectSeq(Article_objects_all, Match)
    ELSE LET Approved(pk) == articles[pk].status = "approved"
         IN SelectSeq(Article_objects_all, Approved)

\* Variant: only the journalist subscriptions select newsletters.
NewsletterViewSet_get_queryset_by_journalist(user) ==
    LET Match(pk) == newsletters[pk].journalist \in ActiveTargets(journalist_subscriptions, user)
    IN IF role[user] = "reader"
       THEN SelectSeq(Newsletter_objects_all, Match)
       ELSE Newsletter_objects_all

\* Variant: every user gets every newsletter.
NewsletterViewSet_get_queryset_unfiltered(user) == Newsletter_objects_all

\* NewsletterViewSet.get_queryset: the keys of the newsletters of the API list.
NewsletterViewSet_get_queryset(user) ==
    IF role[user] = "reader"
    THEN LET subscribed_journalist_ids == ActiveTargets(journalist_subscriptions, user)
             subscribed_publisher_ids == ActiveTargets(publisher_subscriptions, user)
             Match(pk) == \/ newsletters[pk].journalist \in subscribed_journalist_ids
                          \/ newsletters[pk].publisher \in subscribed_publisher_ids
         IN SelectSeq(Newsletter_objects_all, Match)
    ELSE Newsletter_objects_all

\* How often pk occurs among the rows of a queryset.
Occurrences(queryset, pk) == Cardinality({i \in DOMAIN queryset : queryset[i] = pk})

\* get_object_or_404(self.filter_queryset(self.get_queryset()), pk=pk)
get_object(queryset, pk) ==
    IF Occurrences(queryset, pk) = 0 THEN [status |-> "404", data |-> 0]
    ELSE IF Occurrences(queryset, pk) > 1 THEN [status |-> "MultipleObjectsReturned", data |-> 0]
    ELSE [status |-> "200", data |-> pk]

\* Variant: the detail looks the key up among all articles.
ArticleViewSet_retrieve_from_all(user, pk) == get_object(Article_objects_all, pk)

\* GET /articles/{pk}/ of an authenticated user: ModelViewSet.retrieve on the
\* view's own get_queryset.
ArticleViewSet_retrieve(user, pk) == get_object(ArticleViewSet_get_queryset(user), pk)

\* GET /newsletters/{pk}/ of an authenticated user.
NewsletterViewSet_retrieve(user, pk) == get_object(NewsletterViewSet_get_queryset(user), pk)

\* The web page article_list: every approved article, for any logged-in user.
article_list(user) ==
    LET Approved(pk) == articles[pk].status = "approved"
    IN SelectSeq(Article_objects_all, Approved)

\* The web page newsletter_list: every newsletter, for any logged-in user.
newsletter_list(user) == Newsletter_objects_all

\* A query parameter of a GET request: absent (or empty), or a string that is
\* or is not the decimal form of a key.
NoParam == [given |-> FALSE, numeric |-> FALSE, id |-> 0]
NotANumber == [given |-> TRUE, numeric |-> FALSE, id |-> 0]
IdParam(i) == [given |-> TRUE, numeric |-> TRUE, id |-> i]

ApiResponse(status, data) == [status |-> status, data |-> data]

\* ArticleViewSet.by_journalist for an authenticated user.  The id string goes
\* into filter(journalist_id=...) as it is; a string that is no number makes
\* the filter raise ValueError, which nothing catches.
by_journalist(user, journalist_id) ==
    IF ~journalist_id.given THEN ApiResponse("400", <<>>)
    ELSE IF ~journalist_id.numeric THEN ApiResponse("ValueError", <<>>)
    ELSE IF role[user] = "reader"
            /\ ~IsActive(journalist_subscriptions, user, journalist_id.id)
    THEN ApiResponse("403", <<>>)
    ELSE LET Match(pk) == /\ articles[pk].journalist = journalist_id.id
                          /\ articles[pk].status = "approved"
         IN ApiResponse("200", SelectSeq(Article_objects_all, Match))

\* ArticleViewSet.by_publisher for an authenticated user.
by_publisher(user, publisher_id) ==
    IF ~publisher_id.given THEN ApiResponse("400", <<>>)
    ELSE IF ~publisher_id.numeric THEN ApiResponse("ValueError", <<>>)
    ELSE IF role[user] = "reader"
            /\ ~IsActive(publisher_subscriptions, user, publisher_id.id)
    THEN ApiResponse("403", <<>>)
    ELSE LET Match(pk) == /\ articles[pk].publisher = publisher_id.id
                          /\ articles[pk].status = "approved"
         IN ApiResponse("200", SelectSeq(Article_objects_all, Match))

\* Who sends a request: a logged-in user, or nobody (AnonymousUser).
AnonymousUser == [is_authenticated |-> FALSE, key |-> 0]
LoggedIn(u) == [is_authenticated |-> TRUE, key |-> u]

\* Variant: a pending or rejected article is shown only to its journalist and
\* to the editors of its publisher.
article_detail_for_owners(request_user, pk) ==
    IF pk \notin ArticleIds THEN ApiResponse("404", <<>>)
    ELSE IF \/ articles[pk].status = "approved"
            \/ /\ request_user.is_authenticated
               /\ \/ articles[pk].journalist = request_user.key
                  \/ \E e \in editors : /\ e.user = request_user.key
                                         /\ e.publisher = articles[pk].publisher
    THEN ApiResponse("200", <<pk>>)
    ELSE ApiResponse("404", <<>>)

\* The web page article_detail: get_object_or_404 without a status filter for a
\* logged-in editor or journalist, with status="approved" for anyone else.
article_detail(request_user, pk) ==
    IF request_user.is_authenticated /\ role[request_user.key] \in {"editor", "journalist"}
    THEN IF pk \in ArticleIds THEN ApiResponse("200", <<pk>>)
         ELSE ApiResponse("404", <<>>)
    ELSE IF pk \in ArticleIds /\ articles[pk].status = "approved"
         THEN ApiResponse("200", <<pk>>)
         ELSE ApiResponse("404", <<>>)

\* ------------------------------------------------------------------ changing through the API

\* serializer.save() of ArticleSerializer and of NewsletterSerializer on an
\* instance: title and content are the writable fields (journalist and
\* publisher are read-only, status is no field of the serializer).
Serializer_update(instance, data) == [instance EXCEPT !.text = data.text]

\* PUT and PATCH /articles/{pk}/ (ModelViewSet.update, partial_update calls it
\* with partial=True): any authenticated user, on a row of the user's own
\* get_queryset.  A PATCH may leave title and content out (data.text = "");
\* a PUT without them is refused, both fields being required.
ArticleViewSet_update(u, pk, partial, data) ==
    /\ u \in users
    /\ LET found == get_object(ArticleViewSet_get_queryset(u), pk) IN
       IF found.status # "200"
       THEN /\ UNCHANGED articles
            /\ Respond(Request("ArticleViewSet_update", u, pk, data, found.status), <<>>, <<>>)
       ELSE IF ~data.valid
       THEN /\ UNCHANGED articles
            /\ Respond(Request("ArticleViewSet_update", u, pk, data, "400"), <<>>, <<>>)
       ELSE IF data.text = ""
       THEN /\ UNCHANGED articles
            /\ Respond(Request("ArticleViewSet_update", u, pk, data, IF partial THEN "200" ELSE "400"),
                       <<>>, <<>>)
       ELSE /\ articles' = [articles EXCEPT ![pk] = Serializer_update(articles[pk], data)]
            /\ Respond(Request("ArticleViewSet_update", u, pk, data, "200"), <<>>, <<>>)
    /\ UNCHANGED <<people, profiles, newsletters, subs, applications, resets, running>>

\* DELETE /articles/{pk}/ (ModelViewSet.destroy).
ArticleViewSet_destroy(u, pk) ==
    /\ u \in users
    /\ LET found == get_object(ArticleViewSet_get_queryset(u), pk) IN
       IF found.status # "200"
       THEN /\ UNCHANGED articles
            /\ Respond(Request("ArticleViewSet_destroy", u, pk, 0, found.status), <<>>, <<>>)
       ELSE /\ articles' = [articles EXCEPT ![pk] = DeletedArticle]
            /\ Respond(Request("ArticleViewSet_destroy", u, pk, 0, "204"), <<>>, <<>>)
    /\ UNCHANGED <<people, profiles, newsletters, subs, applications, resets, running>>

\* PUT and PATCH /newsletters/{pk}/.
NewsletterViewSet_update(u, pk, partial, data) ==
    /\ u \in users
    /\ LET found == get_object(NewsletterViewSet_get_queryset(u), pk) IN
       IF found.status # "200"
       THEN /\ UNCHANGED newsletters
            /\ Respond(Request("NewsletterViewSet_update", u, pk, data, found.status), <<>>, <<>>)
       ELSE IF ~data.valid
       THEN /\ UNCHANGED newsletters
            /\ Respond(Request("NewsletterViewSet_update", u, pk, data, "400"), <<>>, <<>>)
       ELSE IF data.text = ""
       THEN /\ UNCHANGED newsletters
            /\ Respond(Request("NewsletterViewSet_update", u, pk, data, IF partial THEN "200" ELSE "400"),
                       <<>>, <<>>)
       ELSE /\ newsletters' = [newsletters EXCEPT ![pk] = Serializer_update(newsletters[pk], data)]
            /\ Respond(Request("NewsletterViewSet_update", u, pk, data, "200"), <<>>, <<>>)
    /\ UNCHANGED <<people, profiles, articles, subs, applications, resets, running>>

\* DELETE /newsletters/{pk}/.
NewsletterViewSet_destroy(u, pk) ==
    /\ u \in users
    /\ LET found == get_object(NewsletterViewSet_get_queryset(u), pk) IN
       IF found.status # "200"
       THEN /\ UNCHANGED newsletters
            /\ Respond(Request("NewsletterViewSet_destroy", u, pk, 0, found.status), <<>>, <<>>)
       ELSE /\ newsletters' = [newsletters EXCEPT ![pk] = DeletedNewsletter]
            /\ Respond(Request("NewsletterViewSet_destroy", u, pk, 0, "204"), <<>>, <<>>)
    /\ UNCHANGED <<people, profiles, articles, subs, applications, resets, running>>

\* ------------------------------------------------------------------ the role workflow

\* Two publishers (the first is staff) and a journalist of the first; readers
\* come by registration.
InitialRoles == (1 :> "publisher") @@ (2 :> "publisher") @@ (3 :> "journalist")

InitRoles ==
    /\ users = DOMAIN InitialRoles
    /\ role = InitialRoles
    /\ email = (1 :> "p1@news") @@ (2 :> "p2@news") @@ (3 :> "j3@news")
    /\ publishers = {[user |-> 1, name |-> PublishingName(1)],
                     [user |-> 2, name |-> PublishingName(2)]}
    /\ editors = {}
    /\ journalists = {[user |-> 3, publisher |-> 1]}
    /\ articles = <<>>
    /\ newsletters = <<>>
    /\ journalist_subscriptions = <<>>
    /\ publisher_subscriptions = <<>>
    /\ applications = <<>>
    /\ outbox = <<>>
    /\ twitter = <<>>
    /\ last = Request("init", 0, 0, 0, "ok")
    /\ InitAccounts

\* The application forms a staff user posts in the admin site.  A form names
\* a registered user, or the journalist (never approved here, so that the
\* journalist keeps the role).
ApplicationForms ==
    {ApplicationForm(u, r, st, p) :
        u \in users \ DOMAIN InitialRoles, r \in APPLIED_ROLE_CHOICES, st \in STATUS_CHOICES,
        p \in {1, NoPublisher}}
    \cup {ApplicationForm(3, "editor", st, 1) : st \in {"pending", "rejected"}}

\* The forms posted for the application pk while subscriptions are held: for
\* a new application any of them; for a stored one those that keep its
\* applied_role, and those that give it to the journalist.
ApplicationFormsFor(pk) ==
    {form \in ApplicationForms :
        pk \in ApplicationIds =>
            form.user = 3 \/ form.applied_role = applications[pk].applied_role}

\* Who sends the requests: the journalist and the registered users; approvals
\* and rejections come from the staff user and, refused, from the journalist.
Callers == users \ {1, 2}

\* The bound on subscription rows while applications are decided.
FewRows ==
    Len(journalist_subscriptions') + Len(publisher_subscriptions')
        <= MaxSubscriptionRowsWithApplications

NextRoles ==
    \/ \E addr \in Addresses, valid \in BOOLEAN : register(addr, valid)
    \/ \E u \in users \ DOMAIN InitialRoles, r \in ROLE_CHOICES : set_role(u, r)
    \/ \E u \in Callers, j \in {3, NoSuchKey} :
          subscribe_to_journalist(u, j) /\ FewRows
    \/ \E u \in Callers, j \in {3, NoSuchKey} : unsubscribe_from_journalist(u, j)
    \/ \E u \in Callers, p \in {1, 2, NoSuchKey} :
          subscribe_to_publisher(u, p) /\ FewRows
    \/ \E u \in Callers, p \in {1, 2, NoSuchKey} : unsubscribe_from_publisher(u, p)
    \/ \E u \in Callers, m \in {"GET", "POST"}, r \in APPLIED_ROLE_CHOICES, valid \in BOOLEAN :
          /\ apply_for_role(u, m, r, valid)
          /\ Len(applications') <= MaxApplicationsWithSubscriptions
    \/ \E s \in {1, 3}, pk \in DOMAIN applications, m \in {"GET", "POST"},
          p \in {1, NoPublisher} : approve_role_application(s, pk, m, p)
    \/ \E s \in {1, 3}, pk \in DOMAIN applications : reject_role_application(s, pk)
    \/ \E s \in StaffIds, pk \in 1..MaxApplicationsWithSubscriptions :
          \E form \in ApplicationFormsFor(pk) : RoleApplicationAdmin_save_model(s, pk, form)

SpecRoles == InitRoles /\ [][NextRoles]_vars

\* ------------------------------------------------------------------ profiles

\* The same people and a registered reader; nobody subscribes.
InitProfiles ==
    /\ users = 1..4
    /\ role = InitialRoles @@ (4 :> "reader")
    /\ email = (1 :> "p1@news") @@ (2 :> "p2@news") @@ (3 :> "j3@news") @@ (4 :> "a@news")
    /\ publishers = {[user |-> 1, name |-> PublishingName(1)],
                     [user |-> 2, name |-> PublishingName(2)]}
    /\ editors = {}
    /\ journalists = {[user |-> 3, publisher |-> 1]}
    /\ articles = <<>>
    /\ newsletters = <<>>
    /\ journalist_subscriptions = <<>>
    /\ publisher_subscriptions = <<>>
    /\ applications = <<>>
    /\ outbox = <<>>
    /\ twitter = <<>>
    /\ last = Request("init", 0, 0, 0, "ok")
    /\ InitAccounts

\* The forms of the admin site: any application of the reader with either
\* publisher or none, and the journalist as an editor of the second publisher.
ProfileForms ==
    {ApplicationForm(4, r, st, p) :
        r \in APPLIED_ROLE_CHOICES, st \in STATUS_CHOICES, p \in {1, 2, NoPublisher}}
    \cup {ApplicationForm(3, "editor", st, p) : st \in STATUS_CHOICES, p \in {2, NoPublisher}}

\* Applications are made, decided again and again with any publisher, edited
\* and deleted.
NextProfiles ==
    \/ \E r \in ROLE_CHOICES : set_role(4, r)
    \/ \E r \in APPLIED_ROLE_CHOICES :
          /\ apply_for_role(4, "POST", r, TRUE)
          /\ Len(applications') <= MaxApplicationsWithForms
    \/ \E pk \in DOMAIN applications, p \in {1, 2, NoPublisher} :
          approve_role_application(1, pk, "POST", p)
    \/ \E pk \in DOMAIN applications : reject_role_application(1, pk)
    \/ \E pk \in 1..MaxApplicationsWithForms, form \in ProfileForms :
          RoleApplicationAdmin_save_model(1, pk, form)
    \/ \E pk \in DOMAIN applications : RoleApplicationAdmin_delete_view(1, pk)

SpecProfiles == InitProfiles /\ [][NextProfiles]_vars

\* ------------------------------------------------------------------ the admin site

\* The subscription forms a staff user posts: a subscription of the journalist
\* or of a registered user to the first journalist or the first publisher.
JournalistSubscriptionForms ==
    {SubscriptionForm(u, j, flag) : u \in users \ {1, 2}, j \in {3}, flag \in BOOLEAN}

PublisherSubscriptionForms ==
    {SubscriptionForm(u, q, flag) : u \in users \ {1, 2}, q \in {1, 2}, flag \in BOOLEAN}

InitAdmin == InitRoles

\* The requests of the role workflow together with every change a staff user
\* can make to applications and subscriptions in the admin site.
NextAdmin ==
    \/ \E addr \in Addresses : register(addr, TRUE)
    \/ \E u \in users \ DOMAIN InitialRoles, r \in ROLE_CHOICES : set_role(u, r)
    \/ \E u \in Callers : subscribe_to_journalist(u, 3) /\ FewRows
    \/ \E u \in Callers : unsubscribe_from_journalist(u, 3)
    \/ \E u \in Callers, p \in {1, 2} : subscribe_to_publisher(u, p) /\ FewRows
    \/ \E u \in Callers, p \in {1, 2} : unsubscribe_from_publisher(u, p)
    \/ \E u \in Callers, r \in APPLIED_ROLE_CHOICES :
          /\ apply_for_role(u, "POST", r, TRUE)
          /\ Len(applications') <= MaxApplicationsWithSubscriptions
    \/ \E pk \in DOMAIN applications, p \in {1, NoPublisher} :
          approve_role_application(1, pk, "POST", p)
    \/ \E pk \in DOMAIN applications : reject_role_application(1, pk)
    \/ \E s \in StaffIds, pk \in 1..MaxApplicationsWithSubscriptions :
          \E form \in ApplicationFormsFor(pk) : RoleApplicationAdmin_save_model(s, pk, form)
    \/ \E s \in StaffIds, pk \in DOMAIN applications : RoleApplicationAdmin_delete_view(s, pk)
    \/ \E s \in StaffIds, form \in JournalistSubscriptionForms :
          JournalistSubscriptionAdmin_add_view(s, form) /\ FewRows
    \/ \E s \in StaffIds, i \in RowIds(journalist_subscriptions),
          form \in JournalistSubscriptionForms : JournalistSubscriptionAdmin_change_view(s, i, form)
    \/ \E s \in StaffIds, i \in DOMAIN journalist_subscriptions :
          JournalistSubscriptionAdmin_delete_view(s, i)
    \/ \E s \in StaffIds, form \in PublisherSubscriptionForms :
          PublisherSubscriptionAdmin_add_view(s, form) /\ FewRows
    \/ \E s \in StaffIds, i \in RowIds(publisher_subscriptions),
          form \in PublisherSubscriptionForms : PublisherSubscriptionAdmin_change_view(s, i, form)
    \/ \E s \in StaffIds, i \in DOMAIN publisher_subscriptions :
          PublisherSubscriptionAdmin_delete_view(s, i)

SpecAdmin == InitAdmin /\ [][NextAdmin]_vars

\* ------------------------------------------------------------------ role emails that fail

\* email.send() of the two views is not inside a try: when it raises, the view
\* ends with that exception, after its saves have been committed one by one.
approve_role_application_failing(staff, pk, method, publisher_id, send_fails) ==
    IF /\ send_fails
       /\ pk \in ApplicationIds
       /\ is_staff(staff)
       /\ method = "POST"
       /\ publisher_id \in PublisherIds \cup {NoPublisher}
       /\ CreateProfile(applications[pk].user, applications[pk].applied_role, publisher_id).ok
    THEN LET application == applications[pk]
             user == application.user
             made == CreateProfile(user, application.applied_role, publisher_id)
         IN
         /\ staff \in users
         /\ applications' = [applications EXCEPT ![pk].status = "approved"]
         /\ role' = [role EXCEPT ![user] = application.applied_role]
         /\ groups' = CustomUser_save_groups(groups, user, application.applied_role)
         /\ journalist_subscriptions' =
                DeactivateAll(CustomUser_save(journalist_subscriptions, user,
                                              role[user], application.applied_role), user)
         /\ publisher_subscriptions' =
                DeactivateAll(CustomUser_save(publisher_subscriptions, user,
                                              role[user], application.applied_role), user)
         /\ publishers' = made.publishers
         /\ editors' = made.editors
         /\ journalists' = made.journalists
         /\ Respond(Request("approve_role_application", staff, pk, publisher_id, "SMTPException"),
                    <<>>, <<>>)
         /\ UNCHANGED <<users, email, password, content, resets, running>>
    ELSE approve_role_application(staff, pk, method, publisher_id)

reject_role_application_failing(staff, pk, send_fails) ==
    IF send_fails /\ pk \in ApplicationIds /\ is_staff(staff)
    THEN /\ staff \in users
         /\ applications' = [applications EXCEPT ![pk].status = "rejected"]
         /\ Respond(Request("reject_role_application", staff, pk, 0, "SMTPException"),
                    <<>>, <<>>)
         /\ UNCHANGED <<people, profiles, content, subs, resets, running>>
    ELSE reject_role_application(staff, pk)

\* The admin form: the exception leaves changeform_view's transaction, which
\* undoes super().save_model and everything after it.
RoleApplicationAdmin_save_model_failing(staff, pk, form, send_fails) ==
    IF /\ send_fails
       /\ \/ form.status = "rejected"
          \/ /\ form.status = "approved"
             /\ CreateProfile(form.user, form.applied_role, form.publisher).ok
    THEN /\ staff \in users
         /\ is_staff(staff)
         /\ pk \in ApplicationIds \cup {Len(applications) + 1}
         /\ pk \notin DOMAIN applications => Len(applications) < MaxApplications
         /\ form.user \in users
         /\ form.publisher \in PublisherIds \cup {NoPublisher}
         /\ Respond(Request("RoleApplicationAdmin_save_model", staff, pk, form.publisher,
                            "SMTPException"), <<>>, <<>>)
         /\ UNCHANGED <<people, profiles, content, subs, applications, resets, running>>
    ELSE RoleApplicationAdmin_save_model(staff, pk, form)

\* A publisher who is staff, another publisher, a journalist and a reader.
InitRoleMail ==
    /\ users = 1..4
    /\ role = (1 :> "publisher") @@ (2 :> "publisher") @@ (3 :> "journalist") @@ (4 :> "reader")
    /\ email = (1 :> "p1@news") @@ (2 :> "p2@news") @@ (3 :> "j3@news") @@ (4 :> "a@news")
    /\ publishers = {[user |-> 1, name |-> PublishingName(1)],
                     [user |-> 2, name |-> PublishingName(2)]}
    /\ editors = {}
    /\ journalists = {[user |-> 3, publisher |-> 1]}
    /\ articles = <<>>
    /\ newsletters = <<>>
    /\ journalist_subscriptions = <<>>
    /\ publisher_subscriptions = <<>>
    /\ applications = <<>>
    /\ outbox = <<>>
    /\ twitter = <<>>
    /\ last = Request("init", 0, 0, 0, "ok")
    /\ InitAccounts

NextRoleMail ==
    \/ \E u \in Readers, j \in JournalistIds : subscribe_to_journalist(u, j) /\ FewRows
    \/ \E u \in Readers, q \in PublisherIds : subscribe_to_publisher(u, q) /\ FewRows
    \/ \E u \in users, r \in APPLIED_ROLE_CHOICES :
          /\ apply_for_role(u, "POST", r, TRUE)
          /\ Len(applications') <= MaxApplicationsWithSubscriptions
    \/ \E s \in StaffIds, pk \in DOMAIN applications,
          q \in {1, NoPublisher}, send_fails \in BOOLEAN :
          approve_role_application_failing(s, pk, "POST", q, send_fails)
    \/ \E s \in StaffIds, pk \in DOMAIN applications, send_fails \in BOOLEAN :
          reject_role_application_failing(s, pk, send_fails)
    \/ \E s \in StaffIds, pk \in DOMAIN applications, st \in STATUS_CHOICES,
          q \in {1, NoPublisher}, send_fails \in BOOLEAN :
          RoleApplicationAdmin_save_model_failing(
              s, pk, ApplicationForm(applications[pk].user, applications[pk].applied_role, st, q),
              send_fails)

SpecRoleMail == InitRoleMail /\ [][NextRoleMail]_vars

\* ------------------------------------------------------------------ the application workflow alone

\* Two publishers (the first is staff) and two readers who registered.
InitApplications ==
    /\ users = 1..4
    /\ role = (1 :> "publisher") @@ (2 :> "publisher") @@ (3 :> "reader") @@ (4 :> "reader")
    /\ email = (1 :> "p1@news") @@ (2 :> "p2@news") @@ (3 :> "a@news") @@ (4 :> "b@news")
    /\ publishers = {[user |-> 1, name |-> PublishingName(1)],
                     [user |-> 2, name |-> PublishingName(2)]}
    /\ editors = {}
    /\ journalists = {}
    /\ articles = <<>>
    /\ newsletters = <<>>
    /\ journalist_subscriptions = <<>>
    /\ publisher_subscriptions = <<>>
    /\ applications = <<>>
    /\ outbox = <<>>
    /\ twitter = <<>>
    /\ last = Request("init", 0, 0, 0, "ok")
    /\ InitAccounts

\* Only the three requests of the workflow, on any application key.
NextApplications ==
    \/ \E u \in users, m \in {"GET", "POST"}, r \in APPLIED_ROLE_CHOICES, valid \in BOOLEAN :
          apply_for_role(u, m, r, valid)
    \/ \E s \in users, pk \in 1..(MaxApplications + 1), m \in {"GET", "POST"},
          p \in PublisherIds \cup {NoPublisher} : approve_role_application(s, pk, m, p)
    \/ \E s \in users, pk \in 1..(MaxApplications + 1) : reject_role_application(s, pk)

SpecApplications == InitApplications /\ [][NextApplications]_vars

\* ------------------------------------------------------------------ requests in steps

\* Two requests are served at once by separate workers; every query of a view
\* is a step of its own (autocommit, no transaction).  A request in flight is
\* a record of `running': its handler, its caller (request.user as loaded when
\* the request began), what it was sent and what it has read so far, the
\* statement it stands before, the key and the is_active of the subscription
\* row it read, the columns of the user row it loaded, and the IntegrityErrors
\* get_or_create caught for it; for a password reset, the form it was sent and
\* the token row it read; for a view of the admin site, the form it was sent.
RunningIds == 1..MaxRunning
FreeIds == RunningIds \ {r.id : r \in running}

\* The posted ResetPasswordForm ("": the field is empty or missing).
ResetData(new_password, confirm_password) ==
    [new_password |-> new_password, confirm_password |-> confirm_password]

\* No token row read.
NoResetToken == [user |-> 0, token |-> sha1(0), expiry_date |-> 0, used |-> FALSE]

InFlight(id, op, u, arg, pc) ==
    [id |-> id, op |-> op, user |-> u, arg |-> arg, pc |-> pc, key |-> 0, flag |-> FALSE,
     caught |-> 0, role |-> "", email |-> "", password |-> <<>>,
     method |-> "POST", applied_role |-> "", valid |-> TRUE, publisher |-> NoPublisher,
     application |-> DeletedApplication, old_role |-> "",
     data |-> ResetData("", ""), reset_obj |-> NoResetToken, form |-> DeletedRow]

\* A step that sends no response yet.
Pause == UNCHANGED <<last, outbox, twitter>>

Move(r, next) == running' = (running \ {r}) \cup {next}
Leave(r) == running' = running \ {r}

TableOf(op) ==
    IF op = "subscribe_to_journalist" THEN journalist_subscriptions ELSE publisher_subscriptions

TargetsOf(op) == IF op = "subscribe_to_journalist" THEN JournalistIds ELSE PublisherIds

Store(op, table) ==
    IF op = "subscribe_to_journalist"
    THEN journalist_subscriptions' = table /\ UNCHANGED publisher_subscriptions
    ELSE publisher_subscriptions' = table /\ UNCHANGED journalist_subscriptions

\* Variant: no unique_together, the INSERT always succeeds.
create_subscription_unconstrained(table, u, t) ==
    [ok |-> TRUE, table |-> InsertRow(table, <<u, t>>, TRUE)]

\* The INSERT of get_or_create under unique_together (reader, target): refused
\* with IntegrityError when the pair has a row by now.
create_subscription(table, u, t) ==
    IF Rows(table, <<u, t>>) = <<>>
    THEN [ok |-> TRUE, table |-> InsertRow(table, <<u, t>>, TRUE)]
    ELSE [ok |-> FALSE, table |-> table]

\* request.user.role != "reader" of subscribe_to_journalist / _publisher.
subscribe_begin(id, op, u, t) ==
    /\ id \in FreeIds
    /\ u \in users
    /\ IF role[u] # "reader"
       THEN /\ UNCHANGED running
            /\ Respond(Request(op, u, 0, 0, "forbidden"), <<>>, <<>>)
       ELSE /\ running' = running \cup {InFlight(id, op, u, t, "lookup")}
            /\ Pause
    /\ UNCHANGED <<people, profiles, content, subs, applications, resets>>

\* get_object_or_404(Journalist, id=journalist_id) / (Publisher, id=publisher_id)
subscribe_lookup(r) ==
    /\ r \in running
    /\ r.op \in {"subscribe_to_journalist", "subscribe_to_publisher"}
    /\ r.pc = "lookup"
    /\ IF r.arg \notin TargetsOf(r.op)
       THEN /\ Leave(r)
            /\ Respond(Request(r.op, r.user, r.arg, 0, "404"), <<>>, <<>>)
       ELSE /\ Move(r, [r EXCEPT !.pc = "get"])
            /\ Pause
    /\ UNCHANGED <<people, profiles, content, subs, applications, resets>>

\* The SELECT of get_or_create, and the one it repeats after an
\* IntegrityError: when that one finds no row either, the IntegrityError is
\* raised again.
subscribe_get(r) ==
    /\ r \in running
    /\ r.pc = "get"
    /\ LET table == TableOf(r.op)
           keys == KeysOf(table, <<r.user, r.arg>>) IN
       IF keys = {}
       THEN IF r.caught = 0
            THEN Move(r, [r EXCEPT !.pc = "create"]) /\ Pause
            ELSE /\ Leave(r)
                 /\ Respond(Request(r.op, r.user, r.arg, r.caught, "IntegrityError"), <<>>, <<>>)
       ELSE IF Cardinality(keys) > 1
       THEN /\ Leave(r)
            /\ Respond(Request(r.op, r.user, r.arg, r.caught, "MultipleObjectsReturned"),
                       <<>>, <<>>)
       ELSE LET key == CHOOSE i \in keys : TRUE IN
            Move(r, [r EXCEPT !.pc = "got", !.key = key, !.flag = table[key].is_active]) /\ Pause
    /\ UNCHANGED <<people, profiles, content, subs, applications, resets>>

\* The INSERT of get_or_create: created, or IntegrityError and back to the SELECT.
subscribe_create(r) ==
    /\ r \in running
    /\ r.pc = "create"
    /\ LET made == create_subscription(TableOf(r.op), r.user, r.arg) IN
       IF made.ok
       THEN /\ SubscriptionRows < MaxSubscriptionRows
            /\ Store(r.op, made.table)
            /\ Leave(r)
            /\ Respond(Request(r.op, r.user, r.arg, r.caught, "subscribed"), <<>>, <<>>)
       ELSE /\ UNCHANGED subs
            /\ Move(r, [r EXCEPT !.pc = "get", !.caught = 1])
            /\ Pause
    /\ UNCHANGED <<people, profiles, content, applications, resets>>

\* Model.save() of a row that was loaded is two statements.  The first is the
\* UPDATE of every column where the key is the row's: `found' tells whether a
\* row has the key; unique_together refuses the UPDATE when another row has
\* the pair by now.
update_subscription(table, key, row) ==
    IF key \notin RowIds(table)
    THEN [found |-> FALSE, ok |-> TRUE, table |-> table]
    ELSE IF KeysOf(table, <<row.reader, row.target>>) \ {key} # {}
    THEN [found |-> TRUE, ok |-> FALSE, table |-> table]
    ELSE [found |-> TRUE, ok |-> TRUE, table |-> [table EXCEPT ![key] = row]]

\* The second, when the UPDATE found no row: the INSERT with the key of the
\* row, refused when a row has the key again or the pair has a row by now.
insert_subscription(table, key, row) ==
    IF key \in RowIds(table) \/ KeysOf(table, <<row.reader, row.target>>) # {}
    THEN [ok |-> FALSE, table |-> table]
    ELSE [ok |-> TRUE, table |-> [table EXCEPT ![key] = row]]

\* After get_or_create found the row: when the flag that was read is False,
\* subscription.is_active = True; subscription.save(), a statement a step
\* (the UPDATE at "got", the INSERT at "save_insert"); else only the message.
subscribe_finish(r) ==
    /\ r \in running
    /\ r.op \in {"subscribe_to_journalist", "subscribe_to_publisher"}
    /\ r.pc \in {"got", "save_insert"}
    /\ LET row == Row(r.user, r.arg, TRUE)
           updated == update_subscription(TableOf(r.op), r.key, row)
           inserted == insert_subscription(TableOf(r.op), r.key, row)
       IN
       IF r.pc = "got" /\ r.flag
       THEN /\ UNCHANGED subs
            /\ Leave(r)
            /\ Respond(Request(r.op, r.user, r.arg, r.caught, "already_subscribed"), <<>>, <<>>)
       ELSE IF r.pc = "got" /\ ~updated.found
       THEN /\ UNCHANGED subs
            /\ Move(r, [r EXCEPT !.pc = "save_insert"])
            /\ Pause
       ELSE LET saved == IF r.pc = "got" THEN updated ELSE inserted IN
            /\ Store(r.op, saved.table)
            /\ Leave(r)
            /\ Respond(Request(r.op, r.user, r.arg, r.caught,
                               IF saved.ok THEN "resubscribed" ELSE "IntegrityError"),
                       <<>>, <<>>)
    /\ UNCHANGED <<people, profiles, content, applications, resets>>

\* request.user.role != "reader" of apply_for_role.
apply_for_role_begin(id, u, method, applied_role, valid) ==
    /\ id \in FreeIds
    /\ u \in users
    /\ IF role[u] # "reader"
       THEN /\ UNCHANGED running
            /\ Respond(Request("apply_for_role", u, 0, 0, "forbidden"), <<>>, <<>>)
       ELSE /\ running' = running \cup
                   {[InFlight(id, "apply_for_role", u, 0, "pending") EXCEPT
                        !.method = method, !.applied_role = applied_role, !.valid = valid]}
            /\ Pause
    /\ UNCHANGED <<people, profiles, content, subs, applications, resets>>

\* The query for a pending application, then method and form.is_valid().
apply_for_role_pending(r) ==
    /\ r \in running
    /\ r.op = "apply_for_role"
    /\ r.pc = "pending"
    /\ IF HasPending(r.user)
       THEN /\ Leave(r)
            /\ Respond(Request("apply_for_role", r.user, 0, 0, "application_pending"), <<>>, <<>>)
       ELSE IF r.method = "POST" /\ r.valid
       THEN /\ Move(r, [r EXCEPT !.pc = "save"])
            /\ Pause
       ELSE /\ Leave(r)
            /\ Respond(Request("apply_for_role", r.user, 0, 0, "form"), <<>>, <<>>)
    /\ UNCHANGED <<people, profiles, content, subs, applications, resets>>

\* application.save()
apply_for_role_save(r) ==
    /\ r \in running
    /\ r.op = "apply_for_role"
    /\ r.pc = "save"
    /\ Len(applications) < MaxApplications
    /\ applications' = Append(applications,
           [user |-> r.user, applied_role |-> r.applied_role, status |-> "pending"])
    /\ Leave(r)
    /\ Respond(Request("apply_for_role", r.user, Len(applications) + 1, 0, "applied"), <<>>, <<>>)
    /\ UNCHANGED <<people, profiles, content, subs, resets>>

\* An approve_role_application request in flight carries the key and the
\* publisher posted, the application row as loaded, and the role that
\* CustomUser.save found stored.
Approving(r) == r \in running /\ r.op = "approve_role_application"

\* A step of an approval that writes no table.
ApprovalReads == UNCHANGED <<people, profiles, content, subs, applications, resets>>

\* @staff_member_required
approve_begin(id, staff, pk, method, publisher_id) ==
    /\ id \in FreeIds
    /\ staff \in users
    /\ IF ~is_staff(staff)
       THEN /\ UNCHANGED running
            /\ Respond(Request("approve_role_application", staff, pk, 0, "login"), <<>>, <<>>)
       ELSE /\ running' = running \cup
                   {[InFlight(id, "approve_role_application", staff, pk, "application") EXCEPT
                        !.method = method, !.publisher = publisher_id]}
            /\ Pause
    /\ ApprovalReads

\* application = get_object_or_404(RoleApplication, pk=pk), then the method.
approve_get_application(r) ==
    /\ Approving(r)
    /\ r.pc = "application"
    /\ IF r.arg \notin ApplicationIds
       THEN /\ Leave(r)
            /\ Respond(Request("approve_role_application", r.user, r.arg, 0, "404"), <<>>, <<>>)
       ELSE IF r.method # "POST"
       THEN /\ Leave(r)
            /\ Respond(Request("approve_role_application", r.user, r.arg, 0, "redirect"),
                       <<>>, <<>>)
       ELSE /\ Move(r, [r EXCEPT !.application = applications[r.arg],
                                 !.pc = IF r.publisher # NoPublisher THEN "publisher"
                                        ELSE "save_application"])
            /\ Pause
    /\ ApprovalReads

\* publisher = get_object_or_404(Publisher, pk=publisher_id)
approve_get_publisher(r) ==
    /\ Approving(r)
    /\ r.pc = "publisher"
    /\ IF r.publisher \notin PublisherIds
       THEN /\ Leave(r)
            /\ Respond(Request("approve_role_application", r.user, r.arg, r.publisher, "404"),
                       <<>>, <<>>)
       ELSE /\ Move(r, [r EXCEPT !.pc = "save_application"])
            /\ Pause
    /\ ApprovalReads

\* application.status = "approved"; application.save(), a statement a step:
\* the UPDATE of the row as loaded with the new status where the key is the
\* row's ("save_application"), and when no row has the key any more the INSERT
\* with that key ("insert_application"), refused with IntegrityError when a
\* row has the key again.
approve_save_application(r) ==
    /\ Approving(r)
    /\ r.pc \in {"save_application", "insert_application"}
    /\ IF r.pc = "save_application" /\ r.arg \notin ApplicationIds
       THEN /\ UNCHANGED applications
            /\ Move(r, [r EXCEPT !.pc = "insert_application"])
            /\ Pause
       ELSE IF r.pc = "insert_application" /\ r.arg \in ApplicationIds
       THEN /\ UNCHANGED applications
            /\ Leave(r)
            /\ Respond(Request("approve_role_application", r.user, r.arg, r.publisher,
                               "IntegrityError"), <<>>, <<>>)
       ELSE /\ applications' = [applications EXCEPT
                                   ![r.arg] = [r.application EXCEPT !.status = "approved"]]
            /\ Move(r, [r EXCEPT !.pc = "load_user"])
            /\ Pause
    /\ UNCHANGED <<people, profiles, content, subs, resets>>

\* user = application.user: the user row is loaded.  Of what is loaded the
\* request changes the role; the other columns are written back as loaded.
approve_load_user(r) ==
    /\ Approving(r)
    /\ r.pc = "load_user"
    /\ Move(r, [r EXCEPT !.email = email[r.application.user],
                         !.password = password[r.application.user],
                         !.pc = "old_role"])
    /\ Pause
    /\ ApprovalReads

\* CustomUser.save: old_role = CustomUser.objects.get(pk=self.pk).role
approve_read_old_role(r) ==
    /\ Approving(r)
    /\ r.pc = "old_role"
    /\ Move(r, [r EXCEPT !.old_role = role[r.application.user], !.pc = "save_user"])
    /\ Pause
    /\ ApprovalReads

\* CustomUser.save: super().save(), the UPDATE of every column of the user
\* row: the new role, the others as they were loaded.
approve_save_user(r) ==
    /\ Approving(r)
    /\ r.pc = "save_user"
    /\ role' = [role EXCEPT ![r.application.user] = r.application.applied_role]
    /\ email' = [email EXCEPT ![r.application.user] = r.email]
    /\ password' = [password EXCEPT ![r.application.user] = r.password]
    /\ Move(r, [r EXCEPT !.pc = "groups_clear"])
    /\ Pause
    /\ UNCHANGED <<users, groups, profiles, content, subs, applications, resets>>

\* CustomUser.save: Group.objects.get_or_create(...); self.groups.clear()
approve_groups_clear(r) ==
    /\ Approving(r)
    /\ r.pc = "groups_clear"
    /\ groups' = [groups EXCEPT ![r.application.user] = {}]
    /\ Move(r, [r EXCEPT !.pc = "groups_add"])
    /\ Pause
    /\ UNCHANGED <<users, role, email, password, profiles, content, subs, applications, resets>>

\* Whether save() goes on to _deactivate_subscriptions.
RoleLeftReader(old_role, new_role) ==
    old_role # new_role /\ old_role = "reader" /\ new_role # "reader"

\* CustomUser.save: self.groups.add(group)
approve_groups_add(r) ==
    /\ Approving(r)
    /\ r.pc = "groups_add"
    /\ groups' = [groups EXCEPT ![r.application.user] =
                                    @ \cup {capitalize(r.application.applied_role)}]
    /\ Move(r, [r EXCEPT !.pc = IF RoleLeftReader(r.old_role, r.application.applied_role)
                                THEN "cleanup_journalist" ELSE "update_journalist"])
    /\ Pause
    /\ UNCHANGED <<users, role, email, password, profiles, content, subs, applications, resets>>

\* The four update(is_active=False): the two of _deactivate_subscriptions,
\* then the two of the view.
ApprovalUpdates ==
    {"cleanup_journalist", "cleanup_publisher", "update_journalist", "update_publisher"}

AfterUpdate(pc) ==
    CASE pc = "cleanup_journalist" -> "cleanup_publisher"
      [] pc = "cleanup_publisher" -> "update_journalist"
      [] pc = "update_journalist" -> "update_publisher"
      [] pc = "update_publisher" -> "profile_get"

approve_update(r) ==
    /\ Approving(r)
    /\ r.pc \in ApprovalUpdates
    /\ IF r.pc \in {"cleanup_journalist", "update_journalist"}
       THEN /\ journalist_subscriptions' =
                   DeactivateAll(journalist_subscriptions, r.application.user)
            /\ UNCHANGED publisher_subscriptions
       ELSE /\ publisher_subscriptions' =
                   DeactivateAll(publisher_subscriptions, r.application.user)
            /\ UNCHANGED journalist_subscriptions
    /\ Move(r, [r EXCEPT !.pc = AfterUpdate(r.pc)])
    /\ Pause
    /\ UNCHANGED <<people, profiles, content, applications, resets>>

\* Whether the branch of the role has a profile to make.
MakesProfile(applied_role, publisher) ==
    \/ applied_role \in {"editor", "journalist"} /\ publisher # NoPublisher
    \/ applied_role = "publisher"

\* The row get_or_create looks for.
ProfileExists(u, applied_role, publisher) ==
    CASE applied_role = "editor" -> [user |-> u, publisher |-> publisher] \in editors
      [] applied_role = "journalist" -> [user |-> u, publisher |-> publisher] \in journalists
      [] applied_role = "publisher" -> [user |-> u, name |-> PublishingName(u)] \in publishers

\* Whether the INSERT of the profile is refused: user is one-to-one in the
\* three profile tables, and a publisher's name is unique.
ProfileRefused(u, applied_role, publisher) ==
    CASE applied_role = "editor" -> \E e \in editors : e.user = u
      [] applied_role = "journalist" -> \E j \in journalists : j.user = u
      [] applied_role = "publisher" ->
            \E q \in publishers : q.user = u \/ q.name = PublishingName(u)

\* get_or_create, the SELECT, and the one it repeats after an IntegrityError:
\* when that one finds no row either, the IntegrityError is raised again.
approve_profile_get(r) ==
    /\ Approving(r)
    /\ r.pc = "profile_get"
    /\ LET application == r.application
           missing == /\ MakesProfile(application.applied_role, r.publisher)
                      /\ ~ProfileExists(application.user, application.applied_role, r.publisher)
       IN
       IF missing /\ r.caught # 0
       THEN /\ Leave(r)
            /\ Respond(Request("approve_role_application", r.user, r.arg, r.publisher,
                               "IntegrityError"), <<>>, <<>>)
       ELSE /\ Move(r, [r EXCEPT !.pc = IF missing THEN "profile_create" ELSE "send"])
            /\ Pause
    /\ ApprovalReads

\* get_or_create, the INSERT: created, or IntegrityError and back to the SELECT.
approve_profile_create(r) ==
    /\ Approving(r)
    /\ r.pc = "profile_create"
    /\ LET application == r.application
           made == CreateProfile(application.user, application.applied_role, r.publisher)
       IN
       IF ProfileRefused(application.user, application.applied_role, r.publisher)
       THEN /\ UNCHANGED profiles
            /\ Move(r, [r EXCEPT !.pc = "profile_get", !.caught = 1])
       ELSE /\ publishers' = made.publishers
            /\ editors' = made.editors
            /\ journalists' = made.journalists
            /\ Move(r, [r EXCEPT !.pc = "send", !.flag = made.created])
    /\ Pause
    /\ UNCHANGED <<people, content, subs, applications, resets>>

\* email.send() and the redirect.
approve_send(r) ==
    /\ Approving(r)
    /\ r.pc = "send"
    /\ Leave(r)
    /\ Respond(ApprovedRequest("approve_role_application", r.user, r.arg, r.publisher,
                        r.application.status, r.flag),
               <<Mail("role_approved", email[r.application.user], r.arg)>>, <<>>)
    /\ ApprovalReads

\* A publisher who is staff, a journalist of theirs and two readers; the first
\* reader may have subscribed to the journalist before, and unsubscribed.
InitSubscribeRace ==
    /\ users = 1..5
    /\ role = (1 :> "publisher") @@ (2 :> "reader") @@ (3 :> "journalist")
              @@ (4 :> "reader") @@ (5 :> "reader")
    /\ email = (1 :> "p1@news") @@ (2 :> "c@news") @@ (3 :> "j3@news")
               @@ (4 :> "a@news") @@ (5 :> "b@news")
    /\ publishers = {[user |-> 1, name |-> PublishingName(1)]}
    /\ editors = {}
    /\ journalists = {[user |-> 3, publisher |-> 1]}
    /\ articles = <<>>
    /\ newsletters = <<>>
    /\ \E rows \in {<<>>, <<FALSE>>, <<TRUE>>} :
          journalist_subscriptions =
              IF rows = <<>> THEN <<>> ELSE InsertRow(<<>>, <<4, 3>>, rows[1])
    /\ publisher_subscriptions = <<>>
    /\ applications = <<>>
    /\ outbox = <<>>
    /\ twitter = <<>>
    /\ last = Request("init", 0, 0, 0, "ok")
    /\ InitAccounts

SubscribeViews == {"subscribe_to_journalist", "subscribe_to_publisher"}

NextSubscribeRace ==
    \/ \E id \in RunningIds, op \in SubscribeViews, u \in {4, 5} :
          \E t \in TargetsOf(op) \cup {NoSuchKey} : subscribe_begin(id, op, u, t)
    \/ \E r \in running : subscribe_lookup(r)
    \/ \E r \in running : subscribe_get(r)
    \/ \E r \in running : subscribe_create(r)
    \/ \E r \in running : subscribe_finish(r)

SpecSubscribeRace == InitSubscribeRace /\ [][NextSubscribeRace]_vars

\* The same people, nothing subscribed; the staff user decides applications
\* while the reader's own requests are in flight.
InitRace ==
    /\ users = 1..4
    /\ role = (1 :> "publisher") @@ (2 :> "publisher") @@ (3 :> "journalist") @@ (4 :> "reader")
    /\ email = (1 :> "p1@news") @@ (2 :> "p2@news") @@ (3 :> "j3@news") @@ (4 :> "a@news")
    /\ publishers = {[user |-> 1, name |-> PublishingName(1)],
                     [user |-> 2, name |-> PublishingName(2)]}
    /\ editors = {}
    /\ journalists = {[user |-> 3, publisher |-> 1]}
    /\ articles = <<>>
    /\ newsletters = <<>>
    /\ journalist_subscriptions = <<>>
    /\ publisher_subscriptions = <<>>
    /\ applications = <<>>
    /\ outbox = <<>>
    /\ twitter = <<>>
    /\ last = Request("init", 0, 0, 0, "ok")
    /\ InitAccounts

\* A request takes the first free worker.
NextId == IF FreeIds = {} THEN 0 ELSE CHOOSE id \in FreeIds : \A other \in FreeIds : id <= other

\* What a browser sends to apply_for_role: method and whether the form is valid.
ApplyPosts == {<<"POST", TRUE>>, <<"POST", FALSE>>, <<"GET", TRUE>>}

\* The applications a staff user is asked to decide: the pending ones.
PendingIds == {pk \in ApplicationIds : applications[pk].status = "pending"}

\* The reader (user 4) sends subscribe and apply_for_role requests; the staff
\* user and the reader send approvals of pending applications, one approval
\* at a time.
NextRace ==
    \/ \E j \in JournalistIds : subscribe_begin(NextId, "subscribe_to_journalist", 4, j)
    \/ \E r \in running : subscribe_lookup(r)
    \/ \E r \in running : subscribe_get(r)
    \/ \E r \in running : subscribe_create(r)
    \/ \E r \in running : subscribe_finish(r)
    \/ \E post \in ApplyPosts, a \in APPLIED_ROLE_CHOICES :
          apply_for_role_begin(NextId, 4, post[1], a, post[2])
    \/ \E s \in {1, 4}, pk \in PendingIds, m \in {"GET", "POST"}, q \in {1, 2, NoPublisher} :
          /\ ~\E r \in running : Approving(r)
          /\ approve_begin(NextId, s, pk, m, q)
    \/ \E r \in running : apply_for_role_pending(r)
    \/ \E r \in running : apply_for_role_save(r)
    \/ \E r \in running : approve_get_application(r)
    \/ \E r \in running : approve_get_publisher(r)
    \/ \E r \in running : approve_save_application(r)
    \/ \E r \in running : approve_load_user(r)
    \/ \E r \in running : approve_read_old_role(r)
    \/ \E r \in running : approve_save_user(r)
    \/ \E r \in running : approve_groups_clear(r)
    \/ \E r \in running : approve_groups_add(r)
    \/ \E r \in running : approve_update(r)
    \/ \E r \in running : approve_profile_get(r)
    \/ \E r \in running : approve_profile_create(r)
    \/ \E r \in running : approve_send(r)

SpecRace == InitRace /\ [][NextRace]_vars

\* ------------------------------------------------------------------ the admin site in steps

\* The admin site is served beside the public views: one worker more.
AdminWorker == MaxRunning + 1

IdsInUse == {r.id : r \in running}

\* The requests to JournalistSubscriptionAdmin that post a form.
FormViews ==
    {"JournalistSubscriptionAdmin_add_view", "JournalistSubscriptionAdmin_change_view"}

\* The delete views, of subscription rows and of applications.
DeleteViews == {"JournalistSubscriptionAdmin_delete_view", "RoleApplicationAdmin_delete_view"}

\* The add or change view begins: the change view reads its row (get_object)
\* and answers with the redirect when no row has the key; `i' is 0 for the
\* add view.
JournalistSubscriptionAdmin_begin(id, staff, op, i, form) ==
    /\ id \in (RunningIds \cup {AdminWorker}) \ IdsInUse
    /\ staff \in users
    /\ is_staff(staff)
    /\ op \in FormViews
    /\ op = "JournalistSubscriptionAdmin_add_view" => i = 0
    /\ IF op = "JournalistSubscriptionAdmin_change_view"
          /\ i \notin RowIds(journalist_subscriptions)
       THEN /\ UNCHANGED running
            /\ Respond(Request(op, staff, i, 0, "missing"), <<>>, <<>>)
       ELSE /\ running' = running \cup
                   {[InFlight(id, op, staff, i, "clean_reader") EXCEPT !.key = i, !.form = form]}
            /\ Pause
    /\ UNCHANGED <<people, profiles, content, subs, applications, resets>>

\* ModelForm.is_valid, a query a step: the reader is among the users
\* limit_choices_to lets through, the journalist exists and, when both fields
\* are clean, validate_unique finds no other row of the pair.
JournalistSubscriptionAdmin_validate(r) ==
    /\ r \in running
    /\ r.op \in FormViews
    /\ r.pc \in {"clean_reader", "clean_journalist", "validate_unique"}
    /\ CASE r.pc = "clean_reader" ->
               /\ Move(r, [r EXCEPT !.valid = r.form.reader \in Readers,
                                    !.pc = "clean_journalist"])
               /\ Pause
         [] r.pc = "clean_journalist" ->
               IF r.valid /\ r.form.target \in JournalistIds
               THEN /\ Move(r, [r EXCEPT !.pc = "validate_unique"])
                    /\ Pause
               ELSE /\ Leave(r)
                    /\ Respond(Request(r.op, r.user, r.key, 0, "invalid"), <<>>, <<>>)
         [] r.pc = "validate_unique" ->
               IF KeysOf(journalist_subscriptions, <<r.form.reader, r.form.target>>)
                      \subseteq {r.key}
               THEN /\ Move(r, [r EXCEPT !.pc = IF r.key = 0 THEN "insert" ELSE "update"])
                    /\ Pause
               ELSE /\ Leave(r)
                    /\ Respond(Request(r.op, r.user, r.key, 0, "invalid"), <<>>, <<>>)
    /\ UNCHANGED <<people, profiles, content, subs, applications, resets>>

\* save_model, obj.save(), a statement a step: the INSERT of the add view; the
\* UPDATE of the change view where the key is the row's and, when no row has
\* the key any more, the INSERT with that key.  unique_together refuses each
\* of them with IntegrityError when another row has the pair by now.
JournalistSubscriptionAdmin_save(r) ==
    /\ r \in running
    /\ r.op \in FormViews
    /\ r.pc \in {"insert", "update", "insert_key"}
    /\ LET made == create_subscription(journalist_subscriptions, r.form.reader, r.form.target)
           updated == update_subscription(journalist_subscriptions, r.key, r.form)
           inserted == insert_subscription(journalist_subscriptions, r.key, r.form)
       IN
       CASE r.pc = "insert" ->
               IF made.ok
               THEN /\ SubscriptionRows < MaxSubscriptionRows
                    /\ journalist_subscriptions' = Append(journalist_subscriptions, r.form)
                    /\ Leave(r)
                    /\ Respond(Request(r.op, r.user, Len(journalist_subscriptions) + 1, 0,
                                       "added"), <<>>, <<>>)
               ELSE /\ UNCHANGED journalist_subscriptions
                    /\ Leave(r)
                    /\ Respond(Request(r.op, r.user, 0, 0, "IntegrityError"), <<>>, <<>>)
         [] r.pc = "update" /\ ~updated.found ->
               /\ UNCHANGED journalist_subscriptions
               /\ Move(r, [r EXCEPT !.pc = "insert_key"])
               /\ Pause
         [] r.pc = "update" /\ updated.found ->
               /\ journalist_subscriptions' = updated.table
               /\ Leave(r)
               /\ Respond(Request(r.op, r.user, r.key, 0,
                                  IF updated.ok THEN "changed" ELSE "IntegrityError"),
                          <<>>, <<>>)
         [] r.pc = "insert_key" ->
               /\ journalist_subscriptions' = inserted.table
               /\ Leave(r)
               /\ Respond(Request(r.op, r.user, r.key, 0,
                                  IF inserted.ok THEN "changed" ELSE "IntegrityError"),
                          <<>>, <<>>)
    /\ UNCHANGED <<people, profiles, content, publisher_subscriptions, applications, resets>>

\* A delete view begins: it reads its row (get_object) and answers with the
\* redirect when no row has the key.
ModelAdmin_delete_begin(id, staff, op, key) ==
    /\ id \in (RunningIds \cup {AdminWorker}) \ IdsInUse
    /\ staff \in users
    /\ is_staff(staff)
    /\ op \in DeleteViews
    /\ IF key \notin (IF op = "RoleApplicationAdmin_delete_view"
                      THEN ApplicationIds ELSE RowIds(journalist_subscriptions))
       THEN /\ UNCHANGED running
            /\ Respond(Request(op, staff, key, 0, "missing"), <<>>, <<>>)
       ELSE /\ running' = running \cup {[InFlight(id, op, staff, key, "delete") EXCEPT !.key = key]}
            /\ Pause
    /\ UNCHANGED <<people, profiles, content, subs, applications, resets>>

\* obj.delete(): the DELETE where the key is the row's, of one row or of none,
\* and the answer of a delete either way.
ModelAdmin_delete_row(r) ==
    /\ r \in running
    /\ r.op \in DeleteViews
    /\ r.pc = "delete"
    /\ IF r.op = "RoleApplicationAdmin_delete_view"
       THEN /\ applications' = IF r.key \in ApplicationIds
                               THEN [applications EXCEPT ![r.key] = DeletedApplication]
                               ELSE applications
            /\ UNCHANGED subs
       ELSE /\ journalist_subscriptions' =
                   IF r.key \in RowIds(journalist_subscriptions)
                   THEN DeleteRowAt(journalist_subscriptions, r.key)
                   ELSE journalist_subscriptions
            /\ UNCHANGED <<publisher_subscriptions, applications>>
    /\ Leave(r)
    /\ Respond(Request(r.op, r.user, r.key, 0, "deleted"), <<>>, <<>>)
    /\ UNCHANGED <<people, profiles, content, resets>>

\* Two readers' subscribe requests in steps while the staff user adds, changes
\* and deletes subscription rows in the admin site, in steps as well.
AdminRaceForms == {SubscriptionForm(4, 3, TRUE), SubscriptionForm(5, 3, FALSE)}

\* Requests begin while the table has fewer rows than this, deleted ones counted.
MaxAdminRaceRows == 2

NextAdminRace ==
    \/ /\ Len(journalist_subscriptions) < MaxAdminRaceRows
       /\ subscribe_begin(NextId, "subscribe_to_journalist", 4, 3)
    \/ \E r \in running : subscribe_lookup(r)
    \/ \E r \in running : subscribe_get(r)
    \/ \E r \in running : subscribe_create(r)
    \/ \E r \in running : subscribe_finish(r)
    \/ /\ Len(journalist_subscriptions) < MaxAdminRaceRows
       /\ \E form \in AdminRaceForms :
             \/ JournalistSubscriptionAdmin_begin(
                    AdminWorker, 1, "JournalistSubscriptionAdmin_add_view", 0, form)
             \/ JournalistSubscriptionAdmin_begin(
                    AdminWorker, 1, "JournalistSubscriptionAdmin_change_view", 1, form)
    \/ \E r \in running : JournalistSubscriptionAdmin_validate(r)
    \/ \E r \in running : JournalistSubscriptionAdmin_save(r)
    \/ /\ Len(journalist_subscriptions) < MaxAdminRaceRows
       /\ \E id \in {NextId, AdminWorker} :
             ModelAdmin_delete_begin(id, 1, "JournalistSubscriptionAdmin_delete_view", 1)
    \/ \E r \in running : ModelAdmin_delete_row(r)

SpecAdminRace == InitSubscribeRace /\ [][NextAdminRace]_vars

\* Two approvals of one application in steps while the staff user deletes the
\* application in the admin site.
InitApplicationRace ==
    /\ users = 1..4
    /\ role = (1 :> "publisher") @@ (2 :> "publisher") @@ (3 :> "journalist") @@ (4 :> "reader")
    /\ email = (1 :> "p1@news") @@ (2 :> "p2@news") @@ (3 :> "j3@news") @@ (4 :> "a@news")
    /\ publishers = {[user |-> 1, name |-> PublishingName(1)],
                     [user |-> 2, name |-> PublishingName(2)]}
    /\ editors = {}
    /\ journalists = {[user |-> 3, publisher |-> 1]}
    /\ articles = <<>>
    /\ newsletters = <<>>
    /\ journalist_subscriptions = <<>>
    /\ publisher_subscriptions = <<>>
    /\ applications = <<[user |-> 4, applied_role |-> "journalist", status |-> "pending"]>>
    /\ outbox = <<>>
    /\ twitter = <<>>
    /\ last = Request("init", 0, 0, 0, "ok")
    /\ InitAccounts

NextApplicationRace ==
    \/ approve_begin(NextId, 1, 1, "POST", 1)
    \/ \E r \in running : approve_get_application(r)
    \/ \E r \in running : approve_get_publisher(r)
    \/ \E r \in running : approve_save_application(r)
    \/ \E r \in running : approve_load_user(r)
    \/ \E r \in running : approve_read_old_role(r)
    \/ \E r \in running : approve_save_user(r)
    \/ \E r \in running : approve_groups_clear(r)
    \/ \E r \in running : approve_groups_add(r)
    \/ \E r \in running : approve_update(r)
    \/ \E r \in running : approve_profile_get(r)
    \/ \E r \in running : approve_profile_create(r)
    \/ \E r \in running : approve_send(r)
    \/ ModelAdmin_delete_begin(AdminWorker, 1, "RoleApplicationAdmin_delete_view", 1)
    \/ \E r \in running : ModelAdmin_delete_row(r)

SpecApplicationRace == InitApplicationRace /\ [][NextApplicationRace]_vars

\* The application two approvals had loaded was deleted; the UPDATE of the
\* first found no row, the save() of the second put the row back, and the
\* INSERT of the first was refused.
ApprovalRaisedIntegrityError ==
    /\ last.op = "approve_role_application"
    /\ last.outcome = "IntegrityError"
    /\ last.arg \in ApplicationIds
    /\ applications[last.arg].status = "approved"
    /\ \E r \in running : Approving(r) /\ r.arg = last.arg /\ r.pc = "load_user"

\* The row two subscribe requests had read was deleted; the UPDATE of the
\* first found no row, the save() of the second put the row back, and the
\* INSERT of the first was refused.
SaveRaisedIntegrityError ==
    /\ last.op = "subscribe_to_journalist"
    /\ last.outcome = "IntegrityError"
    /\ last.arg2 = 0
    /\ running = {}
    /\ Cardinality(KeysOf(journalist_subscriptions, <<last.user, last.arg>>)) = 1
    /\ \A i \in KeysOf(journalist_subscriptions, <<last.user, last.arg>>) :
          journalist_subscriptions[i].is_active

\* The add view validated its form, a subscribe request inserted the pair,
\* and the view's INSERT was refused.
AddViewRaisedIntegrityError ==
    /\ last.op = "JournalistSubscriptionAdmin_add_view"
    /\ last.outcome = "IntegrityError"

\* The change view validated its form, a subscribe request inserted the pair
\* in another row, and the view's UPDATE was refused.
ChangeViewRaisedIntegrityError ==
    /\ last.op = "JournalistSubscriptionAdmin_change_view"
    /\ last.outcome = "IntegrityError"
    /\ last.arg \in RowIds(journalist_subscriptions)

\* A delete view has deleted the row another delete view had read and has yet
\* to delete: the DELETE of the second finds no row, and it answers the same.
DeleteViewDeletedNothing ==
    /\ last.op = "JournalistSubscriptionAdmin_delete_view"
    /\ last.outcome = "deleted"
    /\ \E r \in running : r.op = "JournalistSubscriptionAdmin_delete_view" /\ r.key = last.arg

\* The row that refused the INSERT of get_or_create was deleted before the
\* repeated SELECT: the request ends with the IntegrityError.
SubscribeRaisedIntegrityError ==
    /\ last.op = "subscribe_to_journalist"
    /\ last.outcome = "IntegrityError"
    /\ last.arg2 = 1
    /\ KeysOf(journalist_subscriptions, <<last.user, last.arg>>) = {}

\* The row a request had read was deleted before its save(), which put it
\* back under its key.
DeletedRowPutBack ==
    /\ last.op = "subscribe_to_journalist"
    /\ last.outcome = "resubscribed"
    /\ \E i \in RowIds(journalist_subscriptions) :
          /\ journalist_subscriptions[i] = Row(last.user, last.arg, TRUE)
          /\ \E j \in DOMAIN journalist_subscriptions :
                j > i /\ journalist_subscriptions[j] # DeletedRow

\* ------------------------------------------------------------------ password reset

\* generate_reset_url: a new secret token (its number stands for the random
\* string), stored hashed with expiry_date = timezone.now() + 5 minutes.
generate_reset_url(user) ==
    LET token == Len(reset_tokens) + 1 IN
    [token |-> token,
     rows |-> Append(reset_tokens,
                     [user |-> user, token |-> sha1(token),
                      expiry_date |-> now + ResetWindow, used |-> FALSE])]

\* User.objects.get(email=addr): the users with that address.
UsersWithEmail(addr) == {u \in users : email[u] = addr}

\* `valid': ForgotPasswordForm.is_valid(), false when the address is malformed.
forgot_password(method, addr, valid) ==
    /\ IF method # "POST" \/ ~valid
       THEN /\ UNCHANGED reset_tokens
            /\ Respond(Request("forgot_password", 0, addr, 0, "form"), <<>>, <<>>)
       ELSE IF UsersWithEmail(addr) = {}
       THEN /\ UNCHANGED reset_tokens
            /\ Respond(Request("forgot_password", 0, addr, 0, "no_user"), <<>>, <<>>)
       ELSE IF Cardinality(UsersWithEmail(addr)) > 1
       THEN /\ UNCHANGED reset_tokens
            /\ Respond(Request("forgot_password", 0, addr, 0, "MultipleObjectsReturned"),
                       <<>>, <<>>)
       ELSE LET user == CHOOSE u \in UsersWithEmail(addr) : TRUE
                made == generate_reset_url(user) IN
            /\ Len(reset_tokens) < MaxTokens
            /\ reset_tokens' = made.rows
            /\ Respond(Request("forgot_password", user, addr, made.token, "sent"),
                       <<Mail("pw_reset", addr, made.token)>>, <<>>)
    /\ UNCHANGED <<people, profiles, content, subs, applications, now, running>>

\* ResetToken.objects.get(token=hashed_token, used=False): the matching rows
\* (token is unique).
ResetToken_get(token) ==
    {i \in DOMAIN reset_tokens :
        reset_tokens[i].token = sha1(token) /\ ~reset_tokens[i].used}

\* The passwords that the validators of the AUTH_PASSWORD_VALIDATORS setting
\* refuse.  The settings module is not among the sources; Django's own value
\* of the setting is the empty list, under which every password passes.
RefusedByValidators == {}

\* validate_password(raw) raises no ValidationError.
validate_password(raw) == raw \notin RefusedByValidators

\* ResetPasswordForm.is_valid(): both CharFields are required, new_password
\* passes validate_password, and clean() refuses a confirmation that differs.
ResetPasswordForm_is_valid(data) ==
    /\ data.new_password # ""
    /\ data.confirm_password # ""
    /\ validate_password(data.new_password)
    /\ data.new_password = data.confirm_password

\* reset_password runs with no transaction: the lookup of the token, the
\* reading of the clock, the load of the user, the statements of user.save()
\* and reset_obj.save() are steps of their own, and other requests run between
\* them.
Resetting(r) == r \in running /\ r.op = "reset_password"

ResetReads == UNCHANGED <<people, profiles, content, subs, applications, resets>>

\* The request arrives and looks the token up: ResetToken.DoesNotExist sends
\* it to the login page, otherwise the row is kept as read.
reset_begin(id, token, method, data) ==
    /\ id \in FreeIds
    /\ IF ResetToken_get(token) = {}
       THEN /\ UNCHANGED running
            /\ Respond(Request("reset_password", 0, token, method, "invalid_link"), <<>>, <<>>)
       ELSE LET i == CHOOSE x \in ResetToken_get(token) : TRUE IN
            /\ running' = running \cup
                   {[InFlight(id, "reset_password", 0, token, "expiry") EXCEPT
                        !.key = i, !.reset_obj = reset_tokens[i],
                        !.method = method, !.data = data]}
            /\ Pause
    /\ ResetReads

\* reset_obj.expiry_date < timezone.now(), then the method and form.is_valid().
reset_check(r) ==
    /\ Resetting(r)
    /\ r.pc = "expiry"
    /\ IF r.reset_obj.expiry_date < now
       THEN /\ Leave(r)
            /\ Respond(Request("reset_password", 0, r.arg, r.method, "expired"), <<>>, <<>>)
       ELSE IF r.method = "POST" /\ ResetPasswordForm_is_valid(r.data)
       THEN /\ Move(r, [r EXCEPT !.pc = "load_user"])
            /\ Pause
       ELSE /\ Leave(r)
            /\ Respond(Request("reset_password", 0, r.arg, r.method, "form"), <<>>, <<>>)
    /\ ResetReads

\* user = reset_obj.user: the user row is loaded;
\* user.password = make_password(new_password).
reset_load_user(r) ==
    /\ Resetting(r)
    /\ r.pc = "load_user"
    /\ Move(r, [r EXCEPT !.role = role[r.reset_obj.user],
                         !.email = email[r.reset_obj.user],
                         !.password = make_password(r.data.new_password),
                         !.pc = "old_role"])
    /\ Pause
    /\ ResetReads

\* The statements of user.save(), one a step.
UserSaveSteps ==
    {"old_role", "save_user", "groups_clear", "groups_add",
     "cleanup_journalist", "cleanup_publisher"}

\* user.save(), a statement of CustomUser.save at a time: the read of the old
\* role, the UPDATE of every column (the new password, the others as loaded),
\* groups.clear(), groups.add(group) and, when the role as read differs from
\* the one loaded, the two updates of _deactivate_subscriptions.
reset_user_save(r) ==
    /\ Resetting(r)
    /\ r.pc \in UserSaveSteps
    /\ LET user == r.reset_obj.user IN
       CASE r.pc = "old_role" ->
               /\ Move(r, [r EXCEPT !.old_role = role[user], !.pc = "save_user"])
               /\ UNCHANGED <<role, email, password, groups, subs>>
         [] r.pc = "save_user" ->
               /\ role' = [role EXCEPT ![user] = r.role]
               /\ email' = [email EXCEPT ![user] = r.email]
               /\ password' = [password EXCEPT ![user] = r.password]
               /\ Move(r, [r EXCEPT !.pc = "groups_clear"])
               /\ UNCHANGED <<groups, subs>>
         [] r.pc = "groups_clear" ->
               /\ groups' = [groups EXCEPT ![user] = {}]
               /\ Move(r, [r EXCEPT !.pc = "groups_add"])
               /\ UNCHANGED <<role, email, password, subs>>
         [] r.pc = "groups_add" ->
               /\ groups' = [groups EXCEPT ![user] = @ \cup {capitalize(r.role)}]
               /\ Move(r, [r EXCEPT !.pc = IF RoleLeftReader(r.old_role, r.role)
                                           THEN "cleanup_journalist" ELSE "save_token"])
               /\ UNCHANGED <<role, email, password, subs>>
         [] r.pc = "cleanup_journalist" ->
               /\ journalist_subscriptions' = DeactivateAll(journalist_subscriptions, user)
               /\ Move(r, [r EXCEPT !.pc = "cleanup_publisher"])
               /\ UNCHANGED <<role, email, password, groups, publisher_subscriptions>>
         [] r.pc = "cleanup_publisher" ->
               /\ publisher_subscriptions' = DeactivateAll(publisher_subscriptions, user)
               /\ Move(r, [r EXCEPT !.pc = "save_token"])
               /\ UNCHANGED <<role, email, password, groups, journalist_subscriptions>>
    /\ Pause
    /\ UNCHANGED <<users, profiles, content, applications, resets>>

\* reset_obj.used = True; reset_obj.save(): the row as read is written with
\* used set; then the redirect to the login page.
reset_save_token(r) ==
    /\ Resetting(r)
    /\ r.pc = "save_token"
    /\ reset_tokens' = [reset_tokens EXCEPT ![r.key] = [r.reset_obj EXCEPT !.used = TRUE]]
    /\ Leave(r)
    /\ Respond(Request("reset_password", r.reset_obj.user, r.arg, r.method, "reset"),
               <<>>, <<>>)
    /\ UNCHANGED <<people, profiles, content, subs, applications, now>>

\* Time passes: a minute, or from a full minute to the next instant of the
\* clock.
Tick(d) ==
    /\ d = Microsecond => now % Minute = 0
    /\ now + d <= MaxClock * Minute + Microsecond
    /\ now' = now + d
    /\ UNCHANGED <<people, profiles, content, subs, applications, outbox, twitter, last,
                   reset_tokens, running>>

\* Three accounts, the last two registered with the same address.
InitReset ==
    /\ users = 1..3
    /\ role = (1 :> "reader") @@ (2 :> "reader") @@ (3 :> "reader")
    /\ email = (1 :> "a@news") @@ (2 :> "b@news") @@ (3 :> "b@news")
    /\ publishers = {}
    /\ editors = {}
    /\ journalists = {}
    /\ articles = <<>>
    /\ newsletters = <<>>
    /\ journalist_subscriptions = <<>>
    /\ publisher_subscriptions = <<>>
    /\ applications = <<>>
    /\ outbox = <<>>
    /\ twitter = <<>>
    /\ last = Request("init", 0, 0, 0, "ok")
    /\ InitAccounts

NewPasswords == {"new1", "new2"}

\* What is posted to reset_password: a password and its confirmation, equal or
\* not, and forms with a field left empty.
ResetForms ==
    {ResetData(p, p) : p \in NewPasswords}
        \cup {ResetData("new1", "new2"), ResetData("new1", ""), ResetData("", "new1")}

\* Reset requests served one after the other.
NextReset ==
    \/ \E method \in {"GET", "POST"}, addr \in {"a@news", "b@news", "nobody@news"},
          valid \in BOOLEAN : forgot_password(method, addr, valid)
    \/ \E token \in 1..(MaxTokens + 1), method \in {"GET", "POST"}, data \in ResetForms :
          /\ running = {}
          /\ method = "GET" => data = ResetData("new1", "new1")
          /\ reset_begin(NextId, token, method, data)
    \/ \E r \in running : reset_check(r)
    \/ \E r \in running : reset_load_user(r)
    \/ \E r \in running : reset_user_save(r)
    \/ \E r \in running : reset_save_token(r)
    \/ \E d \in {Microsecond, Minute} : Tick(d)

SpecReset == InitReset /\ [][NextReset]_vars

\* The forms that reset a password.
ValidResetForms == {ResetData(p, p) : p \in NewPasswords}

\* Reset requests served at once by separate workers.
NextResetRace ==
    \/ /\ reset_tokens = <<>>
       /\ forgot_password("POST", "a@news", TRUE)
    \/ \E data \in ValidResetForms : reset_begin(NextId, 1, "POST", data)
    \/ \E r \in running : reset_check(r)
    \/ \E r \in running : reset_load_user(r)
    \/ \E r \in running : reset_user_save(r)
    \/ \E r \in running : reset_save_token(r)
    \/ Tick(Minute)

SpecResetRace == InitReset /\ [][NextResetRace]_vars

\* An approval in steps while the applicant resets the password.
NextUserSaveRace ==
    \/ apply_for_role_begin(NextId, 4, "POST", "journalist", TRUE)
    \/ \E r \in running : apply_for_role_pending(r)
    \/ \E r \in running : apply_for_role_save(r)
    \/ \E pk \in PendingIds :
          /\ ~\E r \in running : Approving(r)
          /\ approve_begin(NextId, 1, pk, "POST", 1)
    \/ \E r \in running : approve_get_application(r)
    \/ \E r \in running : approve_get_publisher(r)
    \/ \E r \in running : approve_save_application(r)
    \/ \E r \in running : approve_load_user(r)
    \/ \E r \in running : approve_read_old_role(r)
    \/ \E r \in running : approve_save_user(r)
    \/ \E r \in running : approve_groups_clear(r)
    \/ \E r \in running : approve_groups_add(r)
    \/ \E r \in running : approve_update(r)
    \/ \E r \in running : approve_profile_get(r)
    \/ \E r \in running : approve_profile_create(r)
    \/ \E r \in running : approve_send(r)
    \/ forgot_password("POST", "a@news", TRUE)
    \/ \E token \in 1..MaxTokens :
          /\ ~\E r \in running : Resetting(r)
          /\ reset_begin(NextId, token, "POST", ResetData("new1", "new1"))
    \/ \E r \in running : reset_check(r)
    \/ \E r \in running : reset_load_user(r)
    \/ \E r \in running : reset_user_save(r)
    \/ \E r \in running : reset_save_token(r)

SpecUserSaveRace == InitRace /\ [][NextUserSaveRace]_vars

\* The password was reset between the load and the save of the approval: the
\* save stored the password as loaded, the token stays used.
PasswordPutBack ==
    /\ \E i \in DOMAIN reset_tokens : reset_tokens[i].used /\ reset_tokens[i].user = 4
    /\ password[4] = make_password(OwnPassword)
    /\ role[4] = "journalist"

\* ------------------------------------------------------------------ reading

\* Two publishers (the first is staff), a journalist of each and a reader.
InitVisibility ==
    /\ users = 1..6
    /\ role = (1 :> "publisher") @@ (2 :> "publisher") @@ (3 :> "journalist")
              @@ (4 :> "reader") @@ (5 :> "journalist") @@ (6 :> "editor")
    /\ email = (1 :> "p1@news") @@ (2 :> "p2@news") @@ (3 :> "j3@news")
               @@ (4 :> "a@news") @@ (5 :> "j5@news") @@ (6 :> "e6@news")
    /\ publishers = {[user |-> 1, name |-> PublishingName(1)],
                     [user |-> 2, name |-> PublishingName(2)]}
    /\ editors = {[user |-> 6, publisher |-> 2]}
    /\ journalists = {[user |-> 3, publisher |-> 1], [user |-> 5, publisher |-> 2]}
    /\ articles = <<>>
    /\ newsletters = <<>>
    /\ journalist_subscriptions = <<>>
    /\ publisher_subscriptions = <<>>
    /\ applications = <<>>
    /\ outbox = <<>>
    /\ twitter = <<>>
    /\ last = Request("init", 0, 0, 0, "ok")
    /\ InitAccounts

NextVisibility ==
    \/ \E u \in Readers, j \in JournalistIds : subscribe_to_journalist(u, j)
    \/ \E u \in Readers, j \in JournalistIds : unsubscribe_from_journalist(u, j)
    \/ \E u \in Readers, p \in PublisherIds : subscribe_to_publisher(u, p)
    \/ \E u \in Readers, p \in PublisherIds : unsubscribe_from_publisher(u, p)
    \/ \E u \in JournalistIds : submit_article(u, "POST", PlainArticleData)
    \/ \E u \in JournalistIds : create_newsletter(u, "POST", TRUE)
    \/ \E s \in StaffIds, q \in SUBSET ArticleIds \ {{}} : ArticleAdmin_approve_articles(s, q)
    \/ \E s \in StaffIds, q \in SUBSET ArticleIds \ {{}} : ArticleAdmin_reject_articles(s, q)
    \/ \E u \in JournalistIds, pk \in ArticleIds : delete_article(u, pk, "POST")
    \/ \E u \in JournalistIds, pk \in NewsletterIds : delete_newsletter(u, pk, "POST")

SpecVisibility == InitVisibility /\ [][NextVisibility]_vars

\* ------------------------------------------------------------------ reviewing

\* Two publishers (the first is staff), a journalist and an editor of the
\* first, an editor of the second, an editor whose application was approved
\* without a publisher (no Editor row), and two readers who may share an address.
InitReview ==
    /\ users = 1..8
    /\ role = (1 :> "publisher") @@ (2 :> "publisher") @@ (3 :> "journalist")
              @@ (4 :> "reader") @@ (5 :> "reader") @@ (6 :> "editor")
              @@ (7 :> "editor") @@ (8 :> "editor")
    /\ \E shared \in {"a@news", "b@news"} :
          email = (1 :> "p1@news") @@ (2 :> "p2@news") @@ (3 :> "j3@news")
                  @@ (4 :> "a@news") @@ (5 :> shared) @@ (6 :> "e6@news")
                  @@ (7 :> "e7@news") @@ (8 :> "e8@news")
    /\ publishers = {[user |-> 1, name |-> PublishingName(1)],
                     [user |-> 2, name |-> PublishingName(2)]}
    /\ editors = {[user |-> 6, publisher |-> 1], [user |-> 7, publisher |-> 2]}
    /\ journalists = {[user |-> 3, publisher |-> 1]}
    /\ articles = <<>>
    /\ newsletters = <<>>
    /\ journalist_subscriptions = <<>>
    /\ publisher_subscriptions = <<>>
    /\ applications = <<>>
    /\ outbox = <<>>
    /\ twitter = <<>>
    /\ last = Request("init", 0, 0, 0, "ok")
    /\ InitAccounts

NextReview ==
    \/ \E u \in Readers, j \in JournalistIds : subscribe_to_journalist(u, j)
    \/ \E u \in Readers, j \in JournalistIds : unsubscribe_from_journalist(u, j)
    \/ \E u \in Readers, p \in PublisherIds : subscribe_to_publisher(u, p)
    \/ \E u \in Readers, p \in PublisherIds : unsubscribe_from_publisher(u, p)
    \/ \E u \in JournalistIds :
          submit_article(u, "POST", PlainArticleData) /\ Len(articles') <= MaxArticlesUnderReview
    \/ \E u \in users, pk \in DOMAIN articles : approve_article(u, pk)
    \/ \E u \in users, pk \in DOMAIN articles : reject_article(u, pk)

SpecReview == InitReview /\ [][NextReview]_vars

\* ------------------------------------------------------------------ delivery failures

\* What goes wrong during one request: the addresses email.send() raises
\* for, and whether the call to the social network raises.
Failures(addresses, tweet) == [addresses |-> addresses, twitter |-> tweet]
NoFailures == Failures({}, FALSE)

\* Variant: the first send that raises ends the loop (no try around the send).
RECURSIVE NotifyEach_stopping_at_failure(_, _, _, _, _)
NotifyEach_stopping_at_failure(subscribers, seen, kind, about, failing) ==
    IF subscribers = <<>> THEN <<>>
    ELSE LET to == email[Head(subscribers)] IN
         IF to \in seen
         THEN NotifyEach_stopping_at_failure(Tail(subscribers), seen, kind, about, failing)
         ELSE IF to \in failing THEN <<>>
         ELSE <<Mail(kind, to, about)>> \o
              NotifyEach_stopping_at_failure(Tail(subscribers), seen \cup {to}, kind, about, failing)

\* The loop of send_article_subscriber_notifications with its inner try: the
\* address is added to subscriber_emails before the send, a send that raises
\* is reported and the loop goes on with the next subscription.
RECURSIVE NotifyEach_failing(_, _, _, _, _)
NotifyEach_failing(subscribers, seen, kind, about, failing) ==
    IF subscribers = <<>> THEN <<>>
    ELSE LET to == email[Head(subscribers)] IN
         IF to \in seen
         THEN NotifyEach_failing(Tail(subscribers), seen, kind, about, failing)
         ELSE (IF to \in failing THEN <<>> ELSE <<Mail(kind, to, about)>>) \o
              NotifyEach_failing(Tail(subscribers), seen \cup {to}, kind, about, failing)

\* try: email.send() except Exception: print(...)
send_article_approval_notification_failing(article, pk, failing) ==
    IF email[article.journalist] \in failing THEN <<>>
    ELSE <<Mail("article_status", email[article.journalist], pk)>>

send_article_subscriber_notifications_failing(article, pk, failing) ==
    IF article.status # "approved" THEN <<>>
    ELSE NotifyEach_failing(all_subscribers(article.journalist, article.publisher),
                            {}, "new_article", pk, failing)

\* Every exception raised while posting is caught and False is returned: the
\* posts that were made.
post_article_to_twitter_failing(pk, fails) == IF fails THEN <<>> ELSE <<pk>>

\* approve_article when sends or the social post raise: article.save() has
\* committed before the first send (autocommit), each helper swallows its
\* exceptions, and the view goes on to messages.success and the redirect.
approve_article_failing(u, pk, failures) ==
    /\ u \in users
    /\ IF pk \notin ArticleIds
       THEN /\ UNCHANGED articles
            /\ Respond(Request("approve_article", u, pk, failures, "404"), <<>>, <<>>)
       ELSE IF role[u] = "editor" /\ ~has_editor_profile(u)
       THEN /\ UNCHANGED articles
            /\ Respond(Request("approve_article", u, pk, failures, "RelatedObjectDoesNotExist"),
                       <<>>, <<>>)
       ELSE IF MayReview(u, articles[pk])
       THEN LET article == [articles[pk] EXCEPT !.status = "approved"] IN
            /\ articles' = [articles EXCEPT ![pk] = article]
            /\ Respond(Request("approve_article", u, pk, failures, "approved"),
                       send_article_approval_notification_failing(article, pk, failures.addresses) \o
                       send_article_subscriber_notifications_failing(article, pk, failures.addresses),
                       post_article_to_twitter_failing(pk, failures.twitter))
       ELSE /\ UNCHANGED articles
            /\ Respond(Request("approve_article", u, pk, failures, "forbidden"), <<>>, <<>>)
    /\ UNCHANGED <<people, profiles, newsletters, subs, applications, resets, running>>

\* A publisher, its journalist and its editor, a second publisher with its
\* editor, and three readers, two of them with the same address.
InitDelivery ==
    /\ users = 1..8
    /\ role = (1 :> "publisher") @@ (2 :> "publisher") @@ (3 :> "journalist")
              @@ (4 :> "reader") @@ (5 :> "reader") @@ (6 :> "editor")
              @@ (7 :> "editor") @@ (8 :> "reader")
    /\ email = (1 :> "p1@news") @@ (2 :> "p2@news") @@ (3 :> "j3@news")
               @@ (4 :> "a@news") @@ (5 :> "b@news") @@ (6 :> "e6@news")
               @@ (7 :> "e7@news") @@ (8 :> "a@news")
    /\ publishers = {[user |-> 1, name |-> PublishingName(1)],
                     [user |-> 2, name |-> PublishingName(2)]}
    /\ editors = {[user |-> 6, publisher |-> 1], [user |-> 7, publisher |-> 2]}
    /\ journalists = {[user |-> 3, publisher |-> 1]}
    /\ articles = <<>>
    /\ newsletters = <<>>
    /\ journalist_subscriptions = <<>>
    /\ publisher_subscriptions = <<>>
    /\ applications = <<>>
    /\ outbox = <<>>
    /\ twitter = <<>>
    /\ last = Request("init", 0, 0, 0, "ok")
    /\ InitAccounts

\* The addresses a send may raise for.
FailingAddresses == {"j3@news", "a@news", "b@news"}

NextDelivery ==
    \/ \E u \in Readers, j \in JournalistIds : subscribe_to_journalist(u, j)
    \/ \E u \in Readers, p \in {1} : subscribe_to_publisher(u, p)
    \/ \E u \in JournalistIds : submit_article(u, "POST", PlainArticleData)
    \/ \E u \in {6, 7}, pk \in DOMAIN articles,
          failing \in SUBSET FailingAddresses, tweet \in BOOLEAN :
          approve_article_failing(u, pk, Failures(failing, tweet))

SpecDelivery == InitDelivery /\ [][NextDelivery]_vars

\* ------------------------------------------------------------------ editing

\* Two publishers, a journalist and an editor of each, an editor without an
\* Editor row, and a reader.
InitEdit ==
    /\ users = 1..8
    /\ role = (1 :> "publisher") @@ (2 :> "publisher") @@ (3 :> "journalist")
              @@ (4 :> "reader") @@ (5 :> "journalist") @@ (6 :> "editor")
              @@ (7 :> "editor") @@ (8 :> "editor")
    /\ email = (1 :> "p1@news") @@ (2 :> "p2@news") @@ (3 :> "j3@news")
               @@ (4 :> "a@news") @@ (5 :> "j5@news") @@ (6 :> "e6@news")
               @@ (7 :> "e7@news") @@ (8 :> "e8@news")
    /\ publishers = {[user |-> 1, name |-> PublishingName(1)],
                     [user |-> 2, name |-> PublishingName(2)]}
    /\ editors = {[user |-> 6, publisher |-> 1], [user |-> 7, publisher |-> 2]}
    /\ journalists = {[user |-> 3, publisher |-> 1], [user |-> 5, publisher |-> 2]}
    /\ articles = <<>>
    /\ newsletters = <<>>
    /\ journalist_subscriptions = <<>>
    /\ publisher_subscriptions = <<>>
    /\ applications = <<>>
    /\ outbox = <<>>
    /\ twitter = <<>>
    /\ last = Request("init", 0, 0, 0, "ok")
    /\ InitAccounts

\* An edit as the form sends it, an invalid one, and one that also carries a
\* status, a journalist and a publisher.
EditPayloads ==
    {EditData(TRUE, "", 0, 0), EditData(FALSE, "", 0, 0),
     EditData(TRUE, "approved", 5, 2), EditData(TRUE, "pending", 3, 1)}

NextEdit ==
    \/ \E u \in Readers, j \in {3} : subscribe_to_journalist(u, j)
    \/ \E u \in {3} : submit_article(u, "POST", PlainArticleData)
    \/ \E u \in {6}, pk \in DOMAIN articles : approve_article(u, pk)
    \/ \E u \in {6}, pk \in DOMAIN articles : reject_article(u, pk)
    \/ \E u \in users, pk \in 1..(MaxArticles + 1), m \in {"GET", "POST"}, data \in EditPayloads :
          update_article(u, pk, m, data)

SpecEdit == InitEdit /\ [][NextEdit]_vars

\* ------------------------------------------------------------------ every way to change content

\* The people of the editing scenario; the reader may follow the first
\* journalist.
InitContent == InitEdit

\* What the staff user posts in the article forms of the admin site: the first
\* journalist's article as it is submitted, an approved article of the second
\* journalist and publisher, a rejected one with a journalist of one publisher
\* and the other publisher, and a form without a title.
ArticleAdminForms ==
    {ArticleAdminForm(FirstText, 3, 1, "pending"),
     ArticleAdminForm(EditedText, 5, 2, "approved"),
     ArticleAdminForm(FirstText, 3, 2, "rejected"),
     ArticleAdminForm("", 3, 1, "approved")}

\* The bodies of PUT and PATCH: new title and content, an invalid body, and a
\* body with neither title nor content.
ApiPayloads ==
    {EditData(TRUE, "", 0, 0), EditData(FALSE, "", 0, 0),
     [EditData(TRUE, "approved", 5, 2) EXCEPT !.text = ""]}

NextContent ==
    \/ \E u \in Readers, j \in {3} : subscribe_to_journalist(u, j)
    \/ \E u \in {3} :
          /\ submit_article(u, "POST", PlainArticleData)
          /\ Len(articles') <= MaxArticlesUnderReview
    \/ \E u \in {1, 3, 4, 6, 7, 8}, pk \in ArticleIds : approve_article(u, pk)
    \/ \E u \in {1, 3, 4, 6, 7, 8}, pk \in ArticleIds : reject_article(u, pk)
    \/ \E s \in StaffIds, q \in SUBSET ArticleIds \ {{}} : ArticleAdmin_approve_articles(s, q)
    \/ \E s \in StaffIds, q \in SUBSET ArticleIds \ {{}} : ArticleAdmin_reject_articles(s, q)
    \/ \E s \in StaffIds, pk \in ArticleIds, form \in ArticleAdminForms :
          ArticleAdmin_change_form(s, pk, form)
    \/ \E s \in StaffIds, form \in ArticleAdminForms :
          /\ ArticleAdmin_add_view(s, form)
          /\ Len(articles') <= MaxArticlesUnderReview
    \/ \E s \in StaffIds, pk \in ArticleIds : ArticleAdmin_delete_view(s, pk)
    \/ \E u \in {3, 4, 5, 6, 7, 8}, pk \in 1..(MaxArticlesUnderReview + 1), m \in {"GET", "POST"} :
          delete_article(u, pk, m)
    \/ \E u \in {1, 4, 7}, pk \in 1..(MaxArticlesUnderReview + 1), partial \in BOOLEAN,
          data \in ApiPayloads : ArticleViewSet_update(u, pk, partial, data)
    \/ \E u \in {4, 7}, pk \in 1..(MaxArticlesUnderReview + 1) : ArticleViewSet_destroy(u, pk)
    \/ \E u \in {3} : create_newsletter(u, "POST", TRUE)
    \/ \E u \in {3, 4, 5, 6, 7, 8}, pk \in 1..(MaxNewsletters + 1), m \in {"GET", "POST"},
          data \in {EditData(TRUE, "", 0, 0), EditData(FALSE, "", 0, 0)} :
          update_newsletter(u, pk, m, data)
    \/ \E u \in {3, 4, 5, 6, 7, 8}, pk \in 1..(MaxNewsletters + 1), m \in {"GET", "POST"} :
          delete_newsletter(u, pk, m)
    \/ \E u \in {4, 7}, pk \in 1..(MaxNewsletters + 1), partial \in BOOLEAN,
          data \in ApiPayloads : NewsletterViewSet_update(u, pk, partial, data)
    \/ \E u \in {4, 7}, pk \in 1..(MaxNewsletters + 1) : NewsletterViewSet_destroy(u, pk)

SpecContent == InitContent /\ [][NextContent]_vars

\* ------------------------------------------------------------------ content creation

\* Two publishers; a journalist of the first; a reader; a user with role
\* journalist and no Journalist profile (approved without a publisher); a user
\* with a Journalist profile of the second publisher whose role has since
\* become editor.
InitCreate ==
    /\ users = 1..6
    /\ role = (1 :> "publisher") @@ (2 :> "publisher") @@ (3 :> "journalist")
              @@ (4 :> "reader") @@ (5 :> "journalist") @@ (6 :> "editor")
    /\ email = (1 :> "p1@news") @@ (2 :> "p2@news") @@ (3 :> "j3@news")
               @@ (4 :> "a@news") @@ (5 :> "j5@news") @@ (6 :> "e6@news")
    /\ publishers = {[user |-> 1, name |-> PublishingName(1)],
                     [user |-> 2, name |-> PublishingName(2)]}
    /\ editors = {}
    /\ journalists = {[user |-> 3, publisher |-> 1], [user |-> 6, publisher |-> 2]}
    /\ articles = <<>>
    /\ newsletters = <<>>
    /\ journalist_subscriptions = <<>>
    /\ publisher_subscriptions = <<>>
    /\ applications = <<>>
    /\ outbox = <<>>
    /\ twitter = <<>>
    /\ last = Request("init", 0, 0, 0, "ok")
    /\ InitAccounts

\* The bodies posted: title and content only, valid or not, or with a status,
\* a journalist and a publisher of the sender's choice besides.
ArticlePayloads ==
    {PlainArticleData, ArticleData(FALSE, "", 0, 0)} \cup
    {ArticleData(TRUE, "approved", j, p) : j \in JournalistIds, p \in PublisherIds}

NextCreate ==
    \/ \E u \in Readers, j \in JournalistIds : subscribe_to_journalist(u, j)
    \/ \E u \in Readers, p \in PublisherIds : subscribe_to_publisher(u, p)
    \/ \E u \in users, m \in {"GET", "POST"}, data \in ArticlePayloads : submit_article(u, m, data)
    \/ \E u \in users, data \in ArticlePayloads : ArticleViewSet_create(u, data)
    \/ \E u \in users, m \in {"GET", "POST"}, valid \in BOOLEAN : create_newsletter(u, m, valid)
    \/ \E u \in users, valid \in BOOLEAN : NewsletterViewSet_create(u, valid)

SpecCreate == InitCreate /\ [][NextCreate]_vars

\* ------------------------------------------------------------------ properties of the role workflow

ActiveJournalistSubscriptions(u) == ActiveTargets(journalist_subscriptions, u)
ActivePublisherSubscriptions(u) == ActiveTargets(publisher_subscriptions, u)
HasRows(table, u) == \E k \in Pairs(table) : k[1] = u /\ Len(Rows(table, k)) > 0

\* C1: in every reachable state, a user whose role is not reader has no
\* JournalistSubscription and no PublisherSubscription row with is_active = true.
C1_OnlyReadersHoldActiveSubscriptions ==
    /\ \A k \in Pairs(journalist_subscriptions) :
          ActiveRows(Rows(journalist_subscriptions, k)) # {} => role[k[1]] = "reader"
    /\ \A k \in Pairs(publisher_subscriptions) :
          ActiveRows(Rows(publisher_subscriptions, k)) # {} => role[k[1]] = "reader"

\* A direct role assignment took a subscribed user away from reader.
C1_Witness ==
    /\ last.op = "set_role"
    /\ role[last.user] # "reader"
    /\ HasRows(journalist_subscriptions, last.user)
    /\ HasRows(publisher_subscriptions, last.user)

ApprovalStep ==
    /\ last'.op \in {"approve_role_application", "RoleApplicationAdmin_save_model"}
    /\ last'.outcome = "approved"

\* C2: approving the application of a reader who holds an active journalist
\* and an active publisher subscription leaves the application approved, the
\* user's role equal to applied_role, every subscription of the user inactive,
\* and every subscription row in place (the application is the row as the
\* request saved it).
C2_ApprovalDeactivatesAndKeepsRows ==
    [][ (/\ ApprovalStep
         /\ role[applications'[last'.arg].user] = "reader"
         /\ ActiveJournalistSubscriptions(applications'[last'.arg].user) # {}
         /\ ActivePublisherSubscriptions(applications'[last'.arg].user) # {})
        => LET pk == last'.arg
               u == applications'[pk].user
           IN /\ applications'[pk].status = "approved"
              /\ role'[u] = applications'[pk].applied_role
              /\ Len(journalist_subscriptions') = Len(journalist_subscriptions)
              /\ Len(publisher_subscriptions') = Len(publisher_subscriptions)
              /\ ActiveTargets(journalist_subscriptions', u) = {}
              /\ ActiveTargets(publisher_subscriptions', u) = {}
              /\ \A k \in Pairs(journalist_subscriptions) :
                    /\ k \in Pairs(journalist_subscriptions')
                    /\ Len(Rows(journalist_subscriptions', k)) = Len(Rows(journalist_subscriptions, k))
              /\ \A k \in Pairs(publisher_subscriptions) :
                    /\ k \in Pairs(publisher_subscriptions')
                    /\ Len(Rows(publisher_subscriptions', k)) = Len(Rows(publisher_subscriptions, k))
      ]_vars

\* An approval has just been carried out for a user who holds rows in both
\* subscription tables.
C2_Witness ==
    /\ last.op = "approve_role_application"
    /\ last.outcome = "approved"
    /\ role[applications[last.arg].user] = applications[last.arg].applied_role
    /\ HasRows(journalist_subscriptions, applications[last.arg].user)
    /\ HasRows(publisher_subscriptions, applications[last.arg].user)

\* C3: when approve_role_application fails part-way (the profile insert is
\* refused), none of the application status, the role, the subscription flags
\* and the profiles is changed by the request.
C3_ApprovalIsAllOrNothing ==
    [][ (last'.op = "approve_role_application" /\ last'.outcome = "IntegrityError")
        => UNCHANGED <<applications, role, journalist_subscriptions,
                       publisher_subscriptions, publishers, editors, journalists>>
      ]_vars

\* ------------------------------------------------------------------ properties of the listings

Range(seq) == {seq[i] : i \in DOMAIN seq}
NoRepeats(seq) == \A i, j \in DOMAIN seq : seq[i] = seq[j] => i = j

ApprovedArticles == {pk \in ArticleIds : articles[pk].status = "approved"}

\* The approved articles a reader follows: the journalist or the publisher is
\* the target of an active subscription row of the reader.
FollowedArticles(u) ==
    {pk \in ApprovedArticles :
        \/ \E k \in Pairs(journalist_subscriptions) :
              /\ k = <<u, articles[pk].journalist>>
              /\ \E i \in DOMAIN Rows(journalist_subscriptions, k) : Rows(journalist_subscriptions, k)[i]
        \/ \E k \in Pairs(publisher_subscriptions) :
              /\ k = <<u, articles[pk].publisher>>
              /\ \E i \in DOMAIN Rows(publisher_subscriptions, k) : Rows(publisher_subscriptions, k)[i]}

FollowedNewsletters(u) ==
    {pk \in NewsletterIds :
        \/ \E k \in Pairs(journalist_subscriptions) :
              /\ k = <<u, newsletters[pk].journalist>>
              /\ \E i \in DOMAIN Rows(journalist_subscriptions, k) : Rows(journalist_subscriptions, k)[i]
        \/ \E k \in Pairs(publisher_subscriptions) :
              /\ k = <<u, newsletters[pk].publisher>>
              /\ \E i \in DOMAIN Rows(publisher_subscriptions, k) : Rows(publisher_subscriptions, k)[i]}

NoActiveSubscription(u) ==
    /\ \A k \in Pairs(journalist_subscriptions) :
          k[1] = u => ActiveRows(Rows(journalist_subscriptions, k)) = {}
    /\ \A k \in Pairs(publisher_subscriptions) :
          k[1] = u => ActiveRows(Rows(publisher_subscriptions, k)) = {}

\* C4: the API article list holds, for a reader, exactly the approved articles
\* whose journalist or publisher the reader actively subscribes to, each once;
\* for any other user exactly the approved articles; never a pending or
\* rejected one.
C4_ArticleListIsExactlyTheFollowedApproved ==
    \A u \in users :
        LET listed == ArticleViewSet_get_queryset(u) IN
        /\ NoRepeats(listed)
        /\ Range(listed) = IF role[u] = "reader" THEN FollowedArticles(u) ELSE ApprovedArticles
        /\ \A i \in DOMAIN listed : articles[listed[i]].status = "approved"

\* A reader follows both the journalist and the publisher of an approved
\* article, and another article is not listed for that reader.
C4_Witness ==
    \E u \in users, pk \in ArticleIds :
        /\ role[u] = "reader"
        /\ articles[pk].status = "approved"
        /\ IsActive(journalist_subscriptions, u, articles[pk].journalist)
        /\ IsActive(publisher_subscriptions, u, articles[pk].publisher)
        /\ ArticleViewSet_get_queryset(u) = <<pk>>
        /\ Cardinality(ArticleIds) = 2

\* C5 as claimed: a reader without an active subscription gets an empty list
\* from the API lists and from the web pages article_list and newsletter_list.
C5_EveryListingIsFiltered ==
    \A u \in users :
        (role[u] = "reader" /\ NoActiveSubscription(u))
        => /\ ArticleViewSet_get_queryset(u) = <<>>
           /\ NewsletterViewSet_get_queryset(u) = <<>>
           /\ article_list(u) = <<>>
           /\ newsletter_list(u) = <<>>

\* C5 amended: a reader without an active subscription gets an empty list from
\* the two API lists; the web pages apply no subscription filter and show that
\* reader every approved article and every newsletter.
C5_ApiListsAreFilteredWebPagesAreNot ==
    \A u \in users :
        (role[u] = "reader" /\ NoActiveSubscription(u))
        => /\ ArticleViewSet_get_queryset(u) = <<>>
           /\ NewsletterViewSet_get_queryset(u) = <<>>
           /\ Range(article_list(u)) = ApprovedArticles
           /\ Range(newsletter_list(u)) = NewsletterIds

\* A reader without an active subscription, while an approved article and a
\* newsletter exist.
C5_Witness ==
    \E u \in users :
        /\ role[u] = "reader"
        /\ NoActiveSubscription(u)
        /\ ApprovedArticles # {}
        /\ NewsletterIds # {}

\* C6: the API newsletter list holds, for a reader, exactly the newsletters
\* whose journalist or publisher the reader actively subscribes to, each once
\* and whatever their age; for any other user every newsletter.
C6_NewsletterListIsExactlyTheFollowed ==
    \A u \in users :
        LET listed == NewsletterViewSet_get_queryset(u) IN
        /\ NoRepeats(listed)
        /\ Range(listed) = IF role[u] = "reader" THEN FollowedNewsletters(u)
                           ELSE NewsletterIds

\* A newsletter has just been created and a reader who follows only its
\* publisher has it listed.
C6_Witness ==
    /\ last.op = "create_newsletter"
    /\ last.outcome = "created"
    /\ \E u \in users :
          /\ role[u] = "reader"
          /\ ~IsActive(journalist_subscriptions, u, newsletters[last.arg].journalist)
          /\ IsActive(publisher_subscriptions, u, newsletters[last.arg].publisher)
          /\ NewsletterViewSet_get_queryset(u) = <<last.arg>>

\* The content a reader sees only through the subscription to journalist t.
OnlyThroughJournalist(u, t) ==
    [articles |-> {pk \in Range(ArticleViewSet_get_queryset(u)) :
                      /\ articles[pk].journalist = t
                      /\ ~IsActive(publisher_subscriptions, u, articles[pk].publisher)},
     newsletters |-> {pk \in Range(NewsletterViewSet_get_queryset(u)) :
                      /\ newsletters[pk].journalist = t
                      /\ ~IsActive(publisher_subscriptions, u, newsletters[pk].publisher)}]

OnlyThroughPublisher(u, t) ==
    [articles |-> {pk \in Range(ArticleViewSet_get_queryset(u)) :
                      /\ articles[pk].publisher = t
                      /\ ~IsActive(journalist_subscriptions, u, articles[pk].journalist)},
     newsletters |-> {pk \in Range(NewsletterViewSet_get_queryset(u)) :
                      /\ newsletters[pk].publisher = t
                      /\ ~IsActive(journalist_subscriptions, u, newsletters[pk].journalist)}]

\* C7: when an active subscription of a reader is deactivated, its row stays
\* (inactive) and what the reader saw only through it is gone from the next
\* article and newsletter lists; when the reader subscribes again, the same row
\* is active again and the approved articles and the newsletters of the target
\* are listed again.
C7_DeactivationHidesAndResubscribeShows ==
    [][ \A u \in users :
          /\ \A k \in Pairs(journalist_subscriptions) :
                (k[1] = u /\ role'[u] = "reader") =>
                LET was == IsActive(journalist_subscriptions, u, k[2])
                    is == IsActive(journalist_subscriptions', u, k[2])
                IN
                /\ (was /\ ~is) =>
                      /\ k \in Pairs(journalist_subscriptions')
                      /\ Len(Rows(journalist_subscriptions', k)) = Len(Rows(journalist_subscriptions, k))
                      /\ OnlyThroughJournalist(u, k[2]).articles
                            \cap Range(ArticleViewSet_get_queryset(u)') = {}
                      /\ OnlyThroughJournalist(u, k[2]).newsletters
                            \cap Range(NewsletterViewSet_get_queryset(u)') = {}
                /\ (~was /\ is) =>
                      /\ Len(Rows(journalist_subscriptions', k)) = Len(Rows(journalist_subscriptions, k))
                      /\ {pk \in ApprovedArticles : articles[pk].journalist = k[2]}
                            \subseteq Range(ArticleViewSet_get_queryset(u)')
                      /\ {pk \in NewsletterIds : newsletters[pk].journalist = k[2]}
                            \subseteq Range(NewsletterViewSet_get_queryset(u)')
          /\ \A k \in Pairs(publisher_subscriptions) :
                (k[1] = u /\ role'[u] = "reader") =>
                LET was == IsActive(publisher_subscriptions, u, k[2])
                    is == IsActive(publisher_subscriptions', u, k[2])
                IN
                /\ (was /\ ~is) =>
                      /\ k \in Pairs(publisher_subscriptions')
                      /\ Len(Rows(publisher_subscriptions', k)) = Len(Rows(publisher_subscriptions, k))
                      /\ OnlyThroughPublisher(u, k[2]).articles
                            \cap Range(ArticleViewSet_get_queryset(u)') = {}
                      /\ OnlyThroughPublisher(u, k[2]).newsletters
                            \cap Range(NewsletterViewSet_get_queryset(u)') = {}
                /\ (~was /\ is) =>
                      /\ Len(Rows(publisher_subscriptions', k)) = Len(Rows(publisher_subscriptions, k))
                      /\ {pk \in ApprovedArticles : articles[pk].publisher = k[2]}
                            \subseteq Range(ArticleViewSet_get_queryset(u)')
                      /\ {pk \in NewsletterIds : newsletters[pk].publisher = k[2]}
                            \subseteq Range(NewsletterViewSet_get_queryset(u)')
      ]_vars

\* A reader has just subscribed again to a journalist after unsubscribing, and
\* the journalist's approved article and newsletter are listed again.
C7_Witness ==
    /\ last.op = "subscribe_to_journalist"
    /\ last.outcome = "resubscribed"
    /\ ~IsActive(publisher_subscriptions, last.user, journalist_profile(last.arg).publisher)
    /\ \E pk \in Range(ArticleViewSet_get_queryset(last.user)) :
          articles[pk].journalist = last.arg
    /\ \E pk \in Range(NewsletterViewSet_get_queryset(last.user)) :
          newsletters[pk].journalist = last.arg

\* ------------------------------------------------------------------ properties of the review

\* An editor whose Editor row names the publisher of the article.
EditorOf(u, article) ==
    /\ role[u] = "editor"
    /\ \E e \in editors : e.user = u /\ e.publisher = article.publisher

ReviewOps == {"approve_article", "reject_article"}
AdminOps == {"ArticleAdmin_approve_articles", "ArticleAdmin_reject_articles"}

\* The article is there before and after, with another status.
StatusChanged(pk) == pk \in ArticleIds' /\ articles'[pk].status # articles[pk].status

\* An approve or reject request on an existing article by someone who is not
\* an editor of its publisher.
RefusedReview ==
    /\ last'.op \in ReviewOps
    /\ last'.arg \in ArticleIds
    /\ ~EditorOf(last'.user, articles[last'.arg])

\* C8 as claimed: the status of an article changes only through approve_article
\* or reject_article requested by an editor of the article's publisher; an
\* attempt by anyone else changes no status and sends nothing.
C8_OnlyThePublishersEditorChangesStatus ==
    [][ /\ \A pk \in ArticleIds :
              StatusChanged(pk) =>
                  /\ last'.op \in ReviewOps
                  /\ last'.arg = pk
                  /\ EditorOf(last'.user, articles[pk])
        /\ RefusedReview => (articles' = articles /\ outbox' = <<>> /\ twitter' = <<>>)
      ]_vars

\* C8 amended: through approve_article and reject_article only an editor of the
\* article's publisher changes the status, and an attempt by anyone else
\* changes no status and sends nothing; besides, the admin site (the list
\* actions and the change form of ArticleAdmin) lets a staff user set the
\* status of an article, with no notification and no social post.
C8_StatusChangesByEditorOrAdminAction ==
    [][ /\ \A pk \in ArticleIds :
              StatusChanged(pk) =>
                  \/ /\ last'.op \in ReviewOps
                     /\ last'.arg = pk
                     /\ EditorOf(last'.user, articles[pk])
                  \/ /\ last'.op \in AdminOps
                     /\ is_staff(last'.user)
                     /\ pk \in last'.arg
                     /\ outbox' = <<>>
                     /\ twitter' = <<>>
                  \/ /\ last'.op = "ArticleAdmin_change_form"
                     /\ is_staff(last'.user)
                     /\ last'.arg = pk
                     /\ outbox' = <<>>
                     /\ twitter' = <<>>
        /\ RefusedReview => (articles' = articles /\ outbox' = <<>> /\ twitter' = <<>>)
      ]_vars

\* An editor of another publisher has just been refused on a pending article.
C8_Witness ==
    /\ last.op = "approve_article"
    /\ last.outcome = "forbidden"
    /\ role[last.user] = "editor"
    /\ has_editor_profile(last.user)
    /\ articles[last.arg].status = "pending"
    /\ outbox = <<>>

\* C9 as claimed: an article is created pending, and approve_article and
\* reject_article requested on an article that is already approved or rejected
\* leave its status as it is and send no notification.
C9_ReviewedStatusIsTerminal ==
    [][ /\ Len(articles') > Len(articles) => articles'[Len(articles')].status = "pending"
        /\ ( /\ last'.op \in ReviewOps
             /\ last'.arg \in ArticleIds
             /\ articles[last'.arg].status # "pending" )
           => (articles'[last'.arg].status = articles[last'.arg].status /\ outbox' = <<>>)
      ]_vars

\* The addresses of the readers who actively follow the journalist or the
\* publisher of an article.
Audience(article) ==
    {email[r] : r \in {u \in users :
        \/ \E k \in Pairs(journalist_subscriptions) :
              /\ k = <<u, article.journalist>>
              /\ ActiveRows(Rows(journalist_subscriptions, k)) # {}
        \/ \E k \in Pairs(publisher_subscriptions) :
              /\ k = <<u, article.publisher>>
              /\ ActiveRows(Rows(publisher_subscriptions, k)) # {}}}

OfKind(kind) == LET Is(m) == m.kind = kind IN SelectSeq(outbox, Is)

\* C10: an approval by an editor sends one status email to the journalist of
\* the article, one new-article email to each distinct address of the readers
\* who actively follow the journalist or the publisher and to nobody else, and
\* one social post; a rejection sends the status email only.
C10_ReviewNotifications ==
    /\ (last.op = "approve_article" /\ last.outcome = "approved") =>
          LET article == articles[last.arg]
              news == OfKind("new_article")
          IN
          /\ OfKind("article_status") =
                <<Mail("article_status", email[article.journalist], last.arg)>>
          /\ Len(outbox) = 1 + Len(news)
          /\ {news[i].to : i \in DOMAIN news} = Audience(article)
          /\ \A i, j \in DOMAIN news : news[i].to = news[j].to => i = j
          /\ \A i \in DOMAIN news : news[i].about = last.arg
          /\ twitter = <<last.arg>>
    /\ (last.op = "reject_article" /\ last.outcome = "rejected") =>
          /\ outbox = <<Mail("article_status", email[articles[last.arg].journalist], last.arg)>>
          /\ twitter = <<>>

\* An approval while two readers with the same address follow the article, one
\* of them through both the journalist and the publisher, and one new-article
\* email went out.
C10_Witness ==
    /\ last.op = "approve_article"
    /\ last.outcome = "approved"
    /\ \E r1, r2 \in Readers :
          /\ r1 # r2
          /\ email[r1] = email[r2]
          /\ IsActive(journalist_subscriptions, r1, articles[last.arg].journalist)
          /\ IsActive(publisher_subscriptions, r1, articles[last.arg].publisher)
          /\ IsActive(journalist_subscriptions, r2, articles[last.arg].journalist)
    /\ Len(OfKind("new_article")) = 1

\* ------------------------------------------------------------------ properties of subscribe and unsubscribe

SubscribeOps == {"subscribe_to_journalist", "subscribe_to_publisher"}
UnsubscribeOps == {"unsubscribe_from_journalist", "unsubscribe_from_publisher"}

\* The steps that change no subscription row except those of pair k of the
\* table the request is about.
OnlyPairChanges(op, k) ==
    LET journalist_op == op \in {"subscribe_to_journalist", "unsubscribe_from_journalist"}
        table == IF journalist_op THEN journalist_subscriptions ELSE publisher_subscriptions
        after == IF journalist_op THEN journalist_subscriptions' ELSE publisher_subscriptions'
    IN
    /\ IF journalist_op THEN UNCHANGED publisher_subscriptions
       ELSE UNCHANGED journalist_subscriptions
    /\ \A x \in (Pairs(table) \cup Pairs(after)) \ {k} :
          x \in Pairs(table) /\ x \in Pairs(after) /\ Rows(after, x) = Rows(table, x)

PairBefore(op, k) ==
    IF op \in {"subscribe_to_journalist", "unsubscribe_from_journalist"}
    THEN Rows(journalist_subscriptions, k) ELSE Rows(publisher_subscriptions, k)

PairAfter(op, k) ==
    IF op \in {"subscribe_to_journalist", "unsubscribe_from_journalist"}
    THEN Rows(journalist_subscriptions', k) ELSE Rows(publisher_subscriptions', k)

\* C11: a subscribe request of a reader for an existing target leaves exactly
\* one row for the pair, and that row is active: it is created when the pair
\* had none, set active when it was inactive, left alone when it was active
\* (so a pair never has two rows, however often subscribe is repeated); no
\* other row changes.  A subscribe request of a non-reader is refused and
\* changes no row.
C11_SubscribeLeavesOneActiveRow ==
    [][ last'.op \in SubscribeOps =>
          IF role[last'.user] # "reader"
          THEN last'.outcome = "forbidden" /\ UNCHANGED subs
          ELSE IF last'.outcome = "404" THEN UNCHANGED subs
          ELSE LET k == <<last'.user, last'.arg>>
                   before == PairBefore(last'.op, k)
               IN
               /\ PairAfter(last'.op, k) = <<TRUE>>
               /\ OnlyPairChanges(last'.op, k)
               /\ before \in {<<>>, <<FALSE>>, <<TRUE>>}
               /\ last'.outcome = CASE before = <<>> -> "subscribed"
                                    [] before = <<FALSE>> -> "resubscribed"
                                    [] before = <<TRUE>> -> "already_subscribed"
      ]_vars

\* A reader has subscribed, unsubscribed and subscribed again to a publisher,
\* and the pair has its one row, active.
C11_Witness ==
    /\ last.op = "subscribe_to_publisher"
    /\ last.outcome = "resubscribed"
    /\ role[last.user] = "reader"
    /\ Rows(publisher_subscriptions, <<last.user, last.arg>>) = <<TRUE>>

\* C12: an unsubscribe request of a reader for an existing target sets the
\* active row of the pair inactive; when the pair has no active row (no row, or
\* an inactive one) the request reports "not subscribed" without an error and
\* changes nothing; in no case is a row created or deleted.  An unsubscribe
\* request of a non-reader is refused and changes no row.
C12_UnsubscribeDeactivatesOrDoesNothing ==
    [][ last'.op \in UnsubscribeOps =>
          IF role[last'.user] # "reader"
          THEN last'.outcome = "forbidden" /\ UNCHANGED subs
          ELSE IF last'.outcome = "404" THEN UNCHANGED subs
          ELSE LET k == <<last'.user, last'.arg>>
                   before == PairBefore(last'.op, k)
               IN
               IF ActiveRows(before) # {}
               THEN /\ last'.outcome = "unsubscribed"
                    /\ Len(PairAfter(last'.op, k)) = Len(before)
                    /\ ActiveRows(PairAfter(last'.op, k)) = {}
                    /\ OnlyPairChanges(last'.op, k)
               ELSE /\ last'.outcome = "not_subscribed"
                    /\ UNCHANGED subs
      ]_vars

\* A reader has just asked to unsubscribe from a journalist never subscribed
\* to, while holding an inactive row for a publisher.
C12_Witness ==
    /\ last.op = "unsubscribe_from_journalist"
    /\ last.outcome = "not_subscribed"
    /\ <<last.user, last.arg>> \notin Pairs(journalist_subscriptions)
    /\ \E k \in Pairs(publisher_subscriptions) :
          k[1] = last.user /\ Rows(publisher_subscriptions, k) = <<FALSE>>

\* ------------------------------------------------------------------ properties of the API lookups

\* The id parameters tried: none, a string that is no number, and the key of
\* every user (the key of a user who is no journalist, or no publisher,
\* matches nothing).
QueryParams == {NoParam, NotANumber} \cup {IdParam(i) : i \in users}

\* The reader u has an active row for exactly the target the parameter names.
FollowsExactly(table, u, q) ==
    /\ q.numeric
    /\ \E k \in Pairs(table) : k = <<u, q.id>> /\ ActiveRows(Rows(table, k)) # {}

\* The outcome C13 gives for a lookup: 400 without the parameter, else 403 for
\* a reader who does not follow exactly the target, else the approved articles
\* of the target, each once.
ExpectedLookup(response, u, q, table, of_target) ==
    IF ~q.given THEN response.status = "400"
    ELSE IF role[u] = "reader" /\ ~FollowsExactly(table, u, q) THEN response.status = "403"
    ELSE /\ response.status = "200"
         /\ NoRepeats(response.data)
         /\ Range(response.data) = {pk \in ApprovedArticles : q.numeric /\ of_target[pk] = q.id}

ArticleJournalist == [pk \in ArticleIds |-> articles[pk].journalist]
ArticlePublisher == [pk \in ArticleIds |-> articles[pk].publisher]

\* C13 as claimed: for every user and every value of the id parameter,
\* by_journalist and by_publisher answer 400 when the parameter is missing,
\* else 403 to a reader without an active subscription to exactly that
\* target, else exactly the approved articles of the target (an empty list,
\* not an error, when the id matches nothing).
C13_LookupOutcomeOrder ==
    \A u \in users, q \in QueryParams :
        /\ ExpectedLookup(by_journalist(u, q), u, q, journalist_subscriptions, ArticleJournalist)
        /\ ExpectedLookup(by_publisher(u, q), u, q, publisher_subscriptions, ArticlePublisher)

\* The same for the parameters that are absent or the decimal form of a key.
LookupOutcomeOrderForKeys ==
    \A u \in users, q \in QueryParams \ {NotANumber} :
        /\ ExpectedLookup(by_journalist(u, q), u, q, journalist_subscriptions, ArticleJournalist)
        /\ ExpectedLookup(by_publisher(u, q), u, q, publisher_subscriptions, ArticlePublisher)

\* A reader who follows a publisher but not its journalist is refused the
\* journalist's approved article by by_journalist and gets it from by_publisher.
LookupForKeysWitness ==
    \E u \in Readers, pk \in ApprovedArticles :
        /\ by_journalist(u, IdParam(articles[pk].journalist)).status = "403"
        /\ by_publisher(u, IdParam(articles[pk].publisher)).data = <<pk>>

\* ------------------------------------------------------------------ properties of the article page

Requesters == {AnonymousUser} \cup {LoggedIn(u) : u \in users}

\* C14: article_detail shows an article exactly when the article is approved or
\* the requester is logged in with role editor or journalist (whoever owns the
\* article); in every other case, and for a key no article has, the answer is
\* not-found.
C14_DetailShownIffApprovedOrStaffRole ==
    \A r \in Requesters, pk \in 1..(Len(articles) + 1) :
        LET shown == article_detail(r, pk).status = "200"
            privileged == IF r.is_authenticated
                          THEN role[r.key] = "editor" \/ role[r.key] = "journalist"
                          ELSE FALSE
        IN
        /\ article_detail(r, pk).status \in {"200", "404"}
        /\ shown <=> (pk \in ArticleIds /\ (articles[pk].status = "approved" \/ privileged))
        /\ shown => article_detail(r, pk).data = <<pk>>

\* An article that is not approved is shown to a journalist who did not write
\* it and to an editor of another publisher, and is not found by a reader, a
\* publisher and an anonymous visitor.
C14_Witness ==
    \E pk \in ArticleIds :
        /\ articles[pk].status # "approved"
        /\ \E j \in users : /\ role[j] = "journalist"
                            /\ articles[pk].journalist # j
                            /\ article_detail(LoggedIn(j), pk).status = "200"
        /\ \E e \in editors : /\ e.publisher # articles[pk].publisher
                              /\ article_detail(LoggedIn(e.user), pk).status = "200"
        /\ \E u \in Readers : article_detail(LoggedIn(u), pk).status = "404"
        /\ \E p \in publishers : article_detail(LoggedIn(p.user), pk).status = "404"
        /\ article_detail(AnonymousUser, pk).status = "404"

\* ------------------------------------------------------------------ properties of profiles and rejection

\* C15: a completed approval (staff view or admin form) sets the role of the
\* user of the saved application to its applied_role and touches the profile
\* tables exactly so: applied_role
\* editor with a publisher puts Editor(user, publisher) in place, journalist
\* with a publisher puts Journalist(user, publisher) in place, publisher puts
\* Publisher(user, "<username> Publishing") in place, and editor or journalist
\* without a publisher leaves all three tables as they are.
C15_ApprovalCreatesTheProfileOfTheRole ==
    [][ ApprovalStep =>
          LET application == applications'[last'.arg]
              u == application.user
              p == last'.arg2
          IN
          /\ role'[u] = application.applied_role
          /\ IF application.applied_role = "editor" /\ p # NoPublisher
             THEN /\ editors' = editors \cup {[user |-> u, publisher |-> p]}
                  /\ UNCHANGED <<publishers, journalists>>
             ELSE IF application.applied_role = "journalist" /\ p # NoPublisher
             THEN /\ journalists' = journalists \cup {[user |-> u, publisher |-> p]}
                  /\ UNCHANGED <<publishers, editors>>
             ELSE IF application.applied_role = "publisher"
             THEN /\ publishers' = publishers \cup {[user |-> u, name |-> PublishingName(u)]}
                  /\ UNCHANGED <<editors, journalists>>
             ELSE UNCHANGED <<publishers, editors, journalists>>
      ]_vars

\* An editor application has been approved without a publisher: the user is an
\* editor with no Editor profile.
C15_Witness ==
    /\ last.op = "approve_role_application"
    /\ last.outcome = "approved"
    /\ last.arg2 = NoPublisher
    /\ applications[last.arg].applied_role = "editor"
    /\ role[applications[last.arg].user] = "editor"
    /\ ~has_editor_profile(applications[last.arg].user)

AtMostOneProfileEach ==
    \A u \in users :
        /\ Cardinality({e \in editors : e.user = u}) <= 1
        /\ Cardinality({j \in journalists : j.user = u}) <= 1
        /\ Cardinality({p \in publishers : p.user = u}) <= 1

\* An approval of an application that is already approved, naming the profile
\* the user already has.
Reapproval ==
    /\ ApprovalStep
    /\ last'.arg \in ApplicationIds
    /\ applications[last'.arg].status = "approved"
    /\ applications'[last'.arg] = applications[last'.arg]
    /\ LET application == applications[last'.arg] IN
       \/ /\ application.applied_role = "editor"
          /\ [user |-> application.user, publisher |-> last'.arg2] \in editors
       \/ /\ application.applied_role = "journalist"
          /\ [user |-> application.user, publisher |-> last'.arg2] \in journalists
       \/ /\ application.applied_role = "publisher"
          /\ \E p \in publishers : p.user = application.user

\* C16: in every reachable state a user has at most one Editor, at most one
\* Journalist and at most one Publisher profile, and approving an approved
\* application again with the same decision adds no profile row: get_or_create
\* inserts nothing and the three tables stay as they were.
C16_OneProfilePerUser ==
    /\ []AtMostOneProfileEach
    /\ [][Reapproval => /\ ~last'.created
                        /\ UNCHANGED <<publishers, editors, journalists>>]_vars

\* An application that was loaded approved has been approved again with the
\* publisher of the Journalist profile its user has: get_or_create found the
\* row of the earlier approval and inserted none, and it is the user's only one.
C16_Witness ==
    /\ last.op \in {"approve_role_application", "RoleApplicationAdmin_save_model"}
    /\ last.outcome = "approved"
    /\ last.status = "approved"
    /\ last.arg2 # NoPublisher
    /\ ~last.created
    /\ last.arg \in ApplicationIds
    /\ applications[last.arg].status = "approved"
    /\ applications[last.arg].applied_role = "journalist"
    /\ [user |-> applications[last.arg].user, publisher |-> last.arg2] \in journalists
    /\ Cardinality({j \in journalists : j.user = applications[last.arg].user}) = 1

RejectionStep ==
    /\ last'.op \in {"reject_role_application", "RoleApplicationAdmin_save_model"}
    /\ last'.outcome = "rejected"

\* C17: a rejection (staff view or admin form) leaves the application with
\* status rejected and sends the rejection email to its user, and changes
\* nothing else: no role, no profile, no subscription row or flag, no other
\* application.  Through the staff view the status is the only field of the
\* application that changes; the admin form stores the application's own
\* fields as they were posted.
C17_RejectionChangesOnlyTheStatus ==
    [][ RejectionStep =>
          /\ applications'[last'.arg].status = "rejected"
          /\ \A pk \in DOMAIN applications \ {last'.arg} : applications'[pk] = applications[pk]
          /\ DOMAIN applications' = DOMAIN applications \cup {last'.arg}
          /\ last'.op = "reject_role_application" =>
                applications' = [applications EXCEPT ![last'.arg].status = "rejected"]
          /\ outbox' = <<Mail("role_rejected", email[applications'[last'.arg].user], last'.arg)>>
          /\ UNCHANGED <<users, role, email, publishers, editors, journalists,
                         journalist_subscriptions, publisher_subscriptions>>
      ]_vars

\* The application of a reader with an active subscription has been rejected
\* through the staff view: still a reader, still subscribed.
C17_Witness ==
    /\ last.op = "reject_role_application"
    /\ last.outcome = "rejected"
    /\ applications[last.arg].status = "rejected"
    /\ role[applications[last.arg].user] = "reader"
    /\ ActiveJournalistSubscriptions(applications[last.arg].user) # {}

\* ------------------------------------------------------------------ properties of content creation

ArticleCreateOps == {"submit_article", "ArticleViewSet_create"}
NewsletterCreateOps == {"create_newsletter", "NewsletterViewSet_create"}

\* C18: an article comes into being only through the web submit form or API
\* POST /articles/, as one new row with status pending, the caller's
\* Journalist profile as journalist and that profile's publisher as publisher,
\* whatever the request carries; a caller without a Journalist profile creates
\* no article on either path.
C18_CreatedArticleIsPendingAndOwnedByCaller ==
    [][ /\ articles' # articles =>
              /\ last'.op \in ArticleCreateOps
              /\ Len(articles') = Len(articles) + 1
              /\ SubSeq(articles', 1, Len(articles)) = articles
              /\ LET new == articles'[Len(articles')] IN
                 /\ new.status = "pending"
                 /\ \E j \in journalists :
                       /\ j.user = last'.user
                       /\ new.journalist = j.user
                       /\ new.publisher = j.publisher
        /\ ( /\ last'.op \in ArticleCreateOps
             /\ ~\E j \in journalists : j.user = last'.user )
           => articles' = articles
      ]_vars

\* An article has been created through the web form from a request that
\* carried status approved and another journalist and publisher: it is pending
\* and belongs to the caller and the caller's publisher.
C18_Witness ==
    /\ last.op = "submit_article"
    /\ last.outcome = "submitted"
    /\ last.arg2.status = "approved"
    /\ last.arg2.journalist # last.user
    /\ last.arg2.publisher # journalist_profile(last.user).publisher
    /\ articles[last.arg] = [text |-> last.arg2.text,
                             journalist |-> last.user,
                             publisher |-> journalist_profile(last.user).publisher,
                             status |-> "pending"]

\* C19 as claimed: after every newsletter creation, through the web form or
\* through API POST /newsletters/, the emails sent are one confirmation to the
\* journalist of the newsletter and one notification to each distinct address
\* of the readers who actively follow its journalist or its publisher.
C19_EveryNewsletterCreationNotifies ==
    (last.op \in NewsletterCreateOps /\ last.outcome \in {"created", "201"}) =>
        LET newsletter == newsletters[last.arg]
            news == OfKind("new_newsletter")
        IN
        /\ OfKind("newsletter_created") =
              <<Mail("newsletter_created", email[newsletter.journalist], last.arg)>>
        /\ {news[i].to : i \in DOMAIN news} = Audience(newsletter)
        /\ \A i, j \in DOMAIN news : news[i].to = news[j].to => i = j
        /\ Len(outbox) = 1 + Len(news)

\* The same for the web form alone.
WebNewsletterCreationNotifies ==
    (last.op = "create_newsletter" /\ last.outcome = "created") =>
        LET newsletter == newsletters[last.arg]
            news == OfKind("new_newsletter")
        IN
        /\ OfKind("newsletter_created") =
              <<Mail("newsletter_created", email[newsletter.journalist], last.arg)>>
        /\ {news[i].to : i \in DOMAIN news} = Audience(newsletter)
        /\ \A i, j \in DOMAIN news : news[i].to = news[j].to => i = j
        /\ Len(outbox) = 1 + Len(news)

\* ------------------------------------------------------------------ C20

\* The emails of an approval when nothing fails.
ApprovalMails(pk) ==
    send_article_approval_notification(articles[pk], pk) \o
    send_article_subscriber_notifications(articles[pk], pk)

StillDelivered(mail) == mail.to \notin last.arg2.addresses

\* An approval by the editor of the article's publisher during which sends or
\* the social post raised.
FailedApproval ==
    /\ last.op = "approve_article"
    /\ last.arg \in ArticleIds
    /\ has_editor_profile(last.user)
    /\ MayReview(last.user, articles[last.arg])

\* C20: whatever fails during approve_article (the email to the journalist,
\* emails to subscribers, the social post), the request completes as an
\* approval, the article is approved, every email whose own send did not fail
\* is delivered (a failed send stops neither the later subscribers nor the
\* social post), and the social post is made unless it is the part that failed.
C20_FailuresAreSwallowed ==
    FailedApproval =>
        /\ last.outcome = "approved"
        /\ articles[last.arg].status = "approved"
        /\ outbox = SelectSeq(ApprovalMails(last.arg), StillDelivered)
        /\ twitter = IF last.arg2.twitter THEN <<>> ELSE <<last.arg>>

\* The send to reader 4 (first in the loop) failed, reader 5 after it still got
\* the email, the journalist got the status email and the post was made.
C20_Witness ==
    /\ FailedApproval
    /\ last.arg2 = Failures({"a@news"}, FALSE)
    /\ IsActive(journalist_subscriptions, 4, 3)
    /\ IsActive(publisher_subscriptions, 5, 1)
    /\ Mail("new_article", "b@news", last.arg) \in Range(outbox)
    /\ Mail("new_article", "a@news", last.arg) \notin Range(outbox)
    /\ Mail("article_status", "j3@news", last.arg) \in Range(outbox)
    /\ twitter = <<last.arg>>

\* ------------------------------------------------------------------ C28

\* C28: every user belongs to exactly one group, the one named after the user's
\* current role, in every reachable state: after registration, after a direct
\* role assignment and after an approval by the staff view or the admin form.
C28_OneGroupNamedAfterTheRole ==
    \A u \in users : groups[u] = {capitalize(role[u])}

\* A registered reader became an editor by approval and moved from the Reader
\* group to the Editor group.
C28_Witness ==
    /\ last.op = "approve_role_application"
    /\ last.outcome = "approved"
    /\ LET u == applications[last.arg].user IN
       /\ u \notin DOMAIN InitialRoles
       /\ role[u] = "editor"
       /\ groups[u] = {"Editor"}

\* ------------------------------------------------------------------ C22

\* C22: in every state reached by apply_for_role, approve_role_application and
\* reject_role_application requests, every Editor profile belongs to a user
\* whose role is editor, every Journalist profile to a journalist and every
\* Publisher profile to a publisher.
C22_ProfilesMatchRoles ==
    /\ \A e \in editors : role[e.user] = "editor"
    /\ \A j \in journalists : role[j.user] = "journalist"
    /\ \A q \in publishers : role[q.user] = "publisher"

\* ------------------------------------------------------------------ C27

Decisions == {"approve_role_application", "reject_role_application"}

\* A decision request that the staff check and the method let through, for an
\* application that was no longer pending.
LateDecision ==
    /\ last'.op \in Decisions
    /\ last'.outcome \in {"approved", "rejected", "IntegrityError"}
    /\ applications[last'.arg].status # "pending"

\* C27: an approve or reject request for an application that was already
\* approved or rejected changes neither the application's status nor the
\* user's role, profiles or subscriptions, and sends no notification.
C27_DecidedApplicationsAreFinal ==
    [][LateDecision =>
          /\ UNCHANGED <<applications, role, groups, profiles, subs>>
          /\ outbox' = <<>>]_vars

\* ------------------------------------------------------------------ C21

RoleDecisionOps ==
    {"approve_role_application", "reject_role_application", "RoleApplicationAdmin_save_model"}

\* C21: a failure to send the role-approved or role-rejected email is never
\* the outcome of the approve or reject request.
C21_RoleMailFailureIsSwallowed ==
    last.op \in RoleDecisionOps => last.outcome # "SMTPException"

\* What the two views have stored when the send raises stays stored: the
\* decision, the role of the decision, no active subscription of the user.
ViewWritesSurviveTheMailFailure ==
    (last.op \in {"approve_role_application", "reject_role_application"}
        /\ last.outcome = "SMTPException") =>
        LET application == applications[last.arg] IN
        IF last.op = "reject_role_application" THEN application.status = "rejected"
        ELSE /\ application.status = "approved"
             /\ role[application.user] = application.applied_role
             /\ ActiveTargets(journalist_subscriptions, application.user) = {}
             /\ ActiveTargets(publisher_subscriptions, application.user) = {}

\* The admin form keeps nothing of a request whose send raised.
AdminFormIsUndoneByTheMailFailure ==
    [][(last'.op = "RoleApplicationAdmin_save_model" /\ last'.outcome = "SMTPException")
          => UNCHANGED <<applications, people, profiles, subs>>]_vars

\* ------------------------------------------------------------------ C24

\* C24: when subscribe requests for the same (reader, target) pair run at the
\* same time, no pair ever has more than one row, every request for a target
\* that exists ends with one of the three messages of the view (no exception
\* leaves it; a target that does not exist is answered with the 404 page),
\* and when such a request has ended the row of its pair exists and is active.
C24_RacingSubscribesLeaveOneActiveRow ==
    /\ \A k \in Pairs(journalist_subscriptions) : Len(Rows(journalist_subscriptions, k)) <= 1
    /\ \A k \in Pairs(publisher_subscriptions) : Len(Rows(publisher_subscriptions, k)) <= 1
    /\ last.op \in SubscribeViews =>
          IF last.arg \in TargetsOf(last.op)
          THEN /\ last.outcome \in {"subscribed", "resubscribed", "already_subscribed"}
               /\ Rows(TableOf(last.op), <<last.user, last.arg>>) = <<TRUE>>
          ELSE last.outcome = "404"

\* Both requests found no row; the second INSERT was refused, get_or_create
\* caught the IntegrityError, read the row of the first and the request ended
\* with the already-subscribed message.
C24_Witness ==
    /\ last.op \in SubscribeViews
    /\ last.outcome = "already_subscribed"
    /\ last.arg2 = 1
    /\ running = {}
    /\ Rows(TableOf(last.op), <<last.user, last.arg>>) = <<TRUE>>

\* ------------------------------------------------------------------ C23

PendingOf(u) ==
    {i \in DOMAIN applications :
        applications[i].user = u /\ applications[i].status = "pending"}

AtMostOnePendingEach == \A u \in users : Cardinality(PendingOf(u)) <= 1

\* An application is inserted only for a caller who is a reader at that moment.
OnlyReadersApply ==
    [][Len(applications') > Len(applications) =>
          role[applications'[Len(applications')].user] = "reader"]_vars

\* C23: each user has at most one pending RoleApplication and only a reader
\* creates one, also when two apply_for_role submissions of the same user
\* interleave (both existence checks before either insert).
C23_OnePendingApplicationPerUser ==
    []AtMostOnePendingEach /\ OnlyReadersApply

\* ------------------------------------------------------------------ C26

\* C26: when the approval of a reader's application interleaves with a
\* subscribe request of the same user (role check before the role change,
\* insert or reactivation after the deactivation), then once the subscribe
\* request has ended, the user, no longer a reader, has no active subscription.
C26_NoActiveSubscriptionAfterTheRace ==
    running = {} =>
        \A u \in users :
            role[u] # "reader" =>
                /\ ActiveTargets(journalist_subscriptions, u) = {}
                /\ ActiveTargets(publisher_subscriptions, u) = {}

\* ------------------------------------------------------------------ C25

\* The reset requests in flight.
ResetRequests == {r \in running : r.op = "reset_password"}

\* The request whose statement the step runs.
Acts(r) == r \in running /\ r \notin running'

\* The request is a POST of a valid form.
MayReset(r) == r.method = "POST" /\ ResetPasswordForm_is_valid(r.data)

\* The request ends here, refused, and nothing of passwords and tokens changes.
Refused(r, outcome) ==
    /\ running' = running \ {r}
    /\ last'.op = "reset_password"
    /\ last'.arg = r.arg
    /\ last'.outcome = outcome
    /\ UNCHANGED <<password, reset_tokens>>

\* C25: a reset token expires 5 minutes after it was issued and a used token
\* stays used; a request gets past the lookup only with an unused token, and a
\* request that reads a clock past the token's expiry is refused and changes
\* nothing; a GET or a POST of an invalid form changes no password and no
\* token; a password changes only by a valid POST whose token is unused at that
\* moment, to the new password of the token's user; and the request that
\* answers with the reset leaves the token used.
C25_ResetTokenIsSingleUseAndExpires ==
    [][/\ \A i \in DOMAIN reset_tokens' \ DOMAIN reset_tokens :
              reset_tokens'[i].expiry_date = now + ResetWindow /\ ~reset_tokens'[i].used
       /\ \A i \in DOMAIN reset_tokens : reset_tokens[i].used => reset_tokens'[i].used
       /\ \A r \in running' :
              (r.op = "reset_password" /\ r.id \in FreeIds) =>
                  /\ reset_tokens[r.key].token = sha1(r.arg)
                  /\ ~reset_tokens[r.key].used
       /\ \A r \in ResetRequests :
              (Acts(r) /\ r.pc = "expiry" /\ reset_tokens[r.key].expiry_date < now) =>
                  Refused(r, "expired")
       /\ \A r \in ResetRequests :
              (Acts(r) /\ ~MayReset(r)) => UNCHANGED <<password, reset_tokens>>
       /\ password' # password =>
              \E r \in ResetRequests :
                  /\ Acts(r)
                  /\ MayReset(r)
                  /\ ~reset_tokens[r.key].used
                  /\ password' = [password EXCEPT ![reset_tokens[r.key].user] =
                                                      make_password(r.data.new_password)]
       /\ \A r \in ResetRequests :
              (Acts(r) /\ running' = running \ {r} /\ last'.outcome = "reset") =>
                  reset_tokens'[r.key].used]_vars

\* A request that arrives once the token is used is refused at the lookup.
LaterRequestIsRefused ==
    [][\A token \in 1..MaxTokens :
          (/\ last'.op = "reset_password"
           /\ last'.arg = token
           /\ running' = running
           /\ now' = now
           /\ \E i \in DOMAIN reset_tokens :
                 reset_tokens[i].token = sha1(token) /\ reset_tokens[i].used)
          => last'.outcome = "invalid_link" /\ UNCHANGED <<password, reset_tokens>>]_vars

\* Two POSTs with one token were in flight together: one has answered with
\* the reset and left the token used, and the other, which read the token
\* before, has just stored its own password.
TokenResetTwice ==
    /\ last.op = "reset_password"
    /\ last.outcome = "reset"
    /\ \E r \in ResetRequests :
          /\ r.arg = last.arg
          /\ r.pc = "groups_clear"
          /\ reset_tokens[r.key].used
          /\ password[reset_tokens[r.key].user] = r.password

\* A token that was never used was presented after its expiry and refused.
ExpiredTokenWasRefused ==
    /\ last.op = "reset_password"
    /\ last.outcome = "expired"
    /\ \E i \in DOMAIN reset_tokens :
          /\ reset_tokens[i].token = sha1(last.arg)
          /\ ~reset_tokens[i].used
          /\ reset_tokens[i].expiry_date < now
          /\ password[reset_tokens[i].user] = make_password(OwnPassword)

\* ------------------------------------------------------------------ C29

ArticleKeys == 1..(MaxArticles + 1)
NewsletterKeys == 1..(MaxNewsletters + 1)

Follows(u, item) ==
    \/ IsActive(journalist_subscriptions, u, item.journalist)
    \/ IsActive(publisher_subscriptions, u, item.publisher)

\* C29: the API detail of an article or a newsletter answers with the item if
\* and only if the item is in the list the same user gets, and with not-found
\* otherwise; hence an article that is retrieved is approved, and a reader
\* retrieves only what an active subscription of theirs covers.
C29_ApiDetailMatchesTheApiList ==
    \A u \in users :
        /\ \A pk \in ArticleKeys :
              LET response == ArticleViewSet_retrieve(u, pk) IN
              /\ response.status \in {"200", "404"}
              /\ response.status = "200" <=> pk \in Range(ArticleViewSet_get_queryset(u))
              /\ response.status = "200" =>
                    /\ response.data = pk
                    /\ articles[pk].status = "approved"
                    /\ role[u] = "reader" => Follows(u, articles[pk])
        /\ \A pk \in NewsletterKeys :
              LET response == NewsletterViewSet_retrieve(u, pk) IN
              /\ response.status \in {"200", "404"}
              /\ response.status = "200" <=> pk \in Range(NewsletterViewSet_get_queryset(u))
              /\ (response.status = "200" /\ role[u] = "reader") => Follows(u, newsletters[pk])

\* An approved article that a reader does not follow and a pending one: the
\* reader is refused both, the author gets the approved one and is refused the
\* pending one; the reader follows the journalist of a newsletter and gets it.
C29_Witness ==
    \E u \in Readers, a \in ArticleIds, b \in ArticleIds, n \in NewsletterIds :
        /\ articles[a].status = "approved"
        /\ ~Follows(u, articles[a])
        /\ ArticleViewSet_retrieve(u, a).status = "404"
        /\ ArticleViewSet_retrieve(articles[a].journalist, a).status = "200"
        /\ articles[b].status = "pending"
        /\ ArticleViewSet_retrieve(articles[b].journalist, b).status = "404"
        /\ ArticleViewSet_retrieve(u, b).status = "404"
        /\ IsActive(journalist_subscriptions, u, newsletters[n].journalist)
        /\ NewsletterViewSet_retrieve(u, n).status = "200"

\* ------------------------------------------------------------------ C30

\* The owning journalist, or an editor of the article's publisher.
MayEdit(u, article) ==
    \/ /\ role[u] = "journalist"
       /\ article.journalist = u
    \/ /\ role[u] = "editor"
       /\ [user |-> u, publisher |-> article.publisher] \in editors

\* C30: update_article changes an article only for its owning journalist or an
\* editor of its publisher, and then only title and content: no article is
\* added, status, journalist and publisher of every article stay, so an
\* approved article stays approved and every user's API list is the same as
\* before the edit.
C30_EditChangesOnlyTitleAndContent ==
    [][last'.op = "update_article" =>
          /\ ArticleIds' = ArticleIds
          /\ \A pk \in ArticleIds :
                /\ articles'[pk].status = articles[pk].status
                /\ articles'[pk].journalist = articles[pk].journalist
                /\ articles'[pk].publisher = articles[pk].publisher
                /\ articles'[pk] # articles[pk] =>
                      /\ pk = last'.arg
                      /\ MayEdit(last'.user, articles[pk])
                      /\ articles'[pk].text = last'.arg2.text
          /\ \A u \in users :
                ArticleViewSet_get_queryset(u)' = ArticleViewSet_get_queryset(u)
          /\ UNCHANGED <<people, profiles, newsletters, subs, applications>>]_vars

\* An approved article, followed by a reader, was edited by the editor of its
\* publisher with a request that also carried another status, journalist and
\* publisher: it has the new text, is still approved and in the reader's list.
C30_Witness ==
    /\ last.op = "update_article"
    /\ last.outcome = "updated"
    /\ role[last.user] = "editor"
    /\ last.arg2.status = "pending"
    /\ LET article == articles[last.arg] IN
       /\ article.text = EditedText
       /\ article.status = "approved"
       /\ article.journalist # last.user
       /\ \E u \in Readers : last.arg \in Range(ArticleViewSet_get_queryset(u))

=============================================================================
